---- MODULE Spec2Model ----
(***************************************************************************)
(* A model of the DSN parser (server/src/services/dsnParser.service.ts)    *)
(* and of the question mapper (server/src/core/mappers/                    *)
(* dsnToQuestions.mapper.ts) of the kiosk-test repository.                 *)
(*                                                                         *)
(* Text.  A payload or a field value is a sequence of one-character        *)
(* strings.  A DSN code and a field name are the sequence of their         *)
(* dot-separated segments: "S21.G00.30.001" is <<"S21","G00","30","001">>  *)
(* and "nir" is <<"nir">>, so that a block record (a JavaScript object     *)
(* keyed by field name or by raw code) is a function on such sequences.    *)
(* A raw line of the file is the pair of its leading code-like part and of *)
(* the characters that follow it.                                          *)
(***************************************************************************)
EXTENDS Integers, Sequences, FiniteSets, TLC

VARIABLES
    content,              \* raw lines of the file consumed so far (content.split("\n"))
    filename,             \* the filename argument of parseDsnContent
    company,              \* const company: DsnCompany
    currentEstablishment, \* index in company.establishments of the referenced object, 0 = null
    currentEmployee,      \* reference [est, emp] to the employee object, NullRef = null
    employeeCounter,
    currentBlock,         \* code of the last header token, <<>> = null
    inIdentityBlock,
    inAddressBlock,
    inPersonalBlock,
    inContractBlock,
    inSalaryBlock,
    inPeriodBlock,
    pc,                   \* "walk": in the for loop; "done": parseDsnContent has returned
    backfillRuns,         \* number of calls of backfillFirstEmployeeData in this parse
    result,               \* the value returned by parseDsnContent, <<>> before it returns
    calls,                \* number of calls of parseDsnContent started so far
    clock,                \* the wall clock read by new Date()
    firstCall,            \* what the first call was given and returned, <<>> before it returns
    employees,            \* mapper: the DsnEmployee[] handed to the calculation functions
    currentYear,          \* mapper: new Date().getFullYear()
    tz,                   \* mapper: offset of local time from UTC, in hours
    reportingPeriod,      \* mapper: the ReportingPeriod, <<>> before it is resolved
    answers,              \* mapper: the answers computed so far
    mpc,                  \* mapper: "period" -> "answers" -> "done", or "threw"
    parsedData,           \* mapper: the ParsedDsnData given to mapDsnToQuestions
    firstMapping,         \* mapper: what the first call on parsedData returned, <<>> before
    parsedDsnData,        \* client store: the upload response, <<>> = null
    userAnswers,          \* client store: Record<string, string | number>
    overridden,           \* history: the value last given to setUserAnswer for each
                          \* question since the last reset or clearUserAnswers
    args,                 \* a function called on its own: its name and arguments
    returned              \* what that call returned, <<>> before it returns

parserVars == <<content, filename, company, currentEstablishment, currentEmployee,
                employeeCounter, currentBlock, inIdentityBlock, inAddressBlock,
                inPersonalBlock, inContractBlock, inSalaryBlock, inPeriodBlock,
                pc, backfillRuns, result, calls, clock, firstCall>>
mapperVars == <<employees, currentYear, tz, reportingPeriod, answers, mpc,
                parsedData, firstMapping>>
clientVars == <<parsedDsnData, userAnswers, overridden>>
callVars == <<args, returned>>
vars == <<parserVars, mapperVars, clientVars, callVars>>

----------------------------------------------------------------------------
(* Bounds of the model *)

MaxLines == 4        \* raw lines of a file
MaxCalls == 3        \* calls of parseDsnContent in a run of SpecCalls
MaxCallLines == 3    \* raw lines of a file in a run of SpecCalls
MaxBackfillLines == 5   \* raw lines of a file in a run of SpecBackfill

----------------------------------------------------------------------------
(* Text *)

Quote == "'"
Whitespace == {" ", "\t", "\r"}

\* a raw line: the dot-separated segments it begins with, then the remaining characters
Line(code, tail) == [code |-> code, tail |-> tail]
HeaderLine(code) == Line(code, <<",", Quote, Quote>>)
DataLine(code, value) == Line(code, <<",", Quote>> \o value \o <<Quote>>)

RECURSIVE trimEnd(_)
trimEnd(cs) ==
    IF cs # <<>> /\ cs[Len(cs)] \in Whitespace
    THEN trimEnd(SubSeq(cs, 1, Len(cs) - 1))
    ELSE cs

RECURSIVE trimStart(_)
trimStart(cs) ==
    IF cs # <<>> /\ cs[1] \in Whitespace THEN trimStart(Tail(cs)) ELSE cs

\* String.prototype.trim
trim(line) ==
    IF line.code = <<>>
    THEN Line(<<>>, trimStart(trimEnd(line.tail)))
    ELSE Line(line.code, trimEnd(line.tail))

IsEmptyText(line) == line.code = <<>> /\ line.tail = <<>>

\* String.prototype.startsWith on codes.  Every third segment of a code of
\* the model has two digits, so that a character prefix "S21.G00.06" is a
\* prefix of segments.
startsWith(code, prefix) ==
    Len(code) >= Len(prefix) /\ SubSeq(code, 1, Len(prefix)) = prefix

\* the character classes of DSN_LINE_REGEX, on the segments of the model
UpperDigits == {"S10", "S20", "S21", "S90"}                  \* [A-Z]\d+
GDigits == {"G00"}                                           \* G\d+
Digits == {"00", "01", "05", "06", "11", "30", "40", "50", "51", "90",
           "001", "002", "003", "004", "005", "006", "010", "030", "099"}  \* \d+

\* /^([A-Z]\d+\.G\d+\.\d+(?:\.\d+)?),('.*'|'')$/ : <<>> when the text does
\* not match, else << [code, quotedValue] >>
DSN_LINE_REGEX(text) ==
    IF /\ Len(text.code) \in {3, 4}
       /\ text.code[1] \in UpperDigits
       /\ text.code[2] \in GDigits
       /\ \A k \in 3..Len(text.code) : text.code[k] \in Digits
       /\ Len(text.tail) >= 3
       /\ text.tail[1] = ","
       /\ text.tail[2] = Quote
       /\ text.tail[Len(text.tail)] = Quote
    THEN << [code |-> text.code, quotedValue |-> Tail(text.tail)] >>
    ELSE <<>>

\* parseLine with the null of line 283 missing: a line that does not match
\* goes on as a header token
parseLineKeepsMalformed(line) ==
    LET trimmed == trim(line)
        match == DSN_LINE_REGEX(trimmed)
    IN  IF IsEmptyText(trimmed) THEN <<>>
        ELSE IF match = <<>>
        THEN << [code |-> <<"S21", "G00", "99">>, value |-> <<>>,
                 block |-> "S21", isHeader |-> TRUE] >>
        ELSE LET code == match[1].code
                 quotedValue == match[1].quotedValue
             IN  << [code |-> code,
                     value |-> IF quotedValue = <<Quote, Quote>> THEN <<>>
                               ELSE SubSeq(quotedValue, 2, Len(quotedValue) - 1),
                     block |-> code[1],
                     isHeader |-> (quotedValue = <<Quote, Quote>>)] >>

\* parseLine: <<>> is null, else << [code, value, block, isHeader] >>
parseLine(line) ==
    LET trimmed == trim(line)
        match == DSN_LINE_REGEX(trimmed)
    IN  IF IsEmptyText(trimmed) THEN <<>>
        ELSE IF match = <<>> THEN <<>>
        ELSE LET code == match[1].code
                 quotedValue == match[1].quotedValue
             IN  << [code |-> code,
                     value |-> IF quotedValue = <<Quote, Quote>> THEN <<>>
                               ELSE SubSeq(quotedValue, 2, Len(quotedValue) - 1),
                     block |-> code[1],
                     isHeader |-> (quotedValue = <<Quote, Quote>>)] >>

\* line 101: content.split("\n").filter(line => line.trim().length > 0)
NonBlank(line) == ~IsEmptyText(trim(line))
FilterLines(raw) == SelectSeq(raw, NonBlank)

----------------------------------------------------------------------------
(* Field mappers *)

\* Put keeping the value of a key the object already has
PutIfAbsent(record, key, value) ==
    [k \in (DOMAIN record) \cup {key} |->
        IF k \in DOMAIN record THEN record[k] ELSE value]

\* record[key] = value on a JavaScript object
Put(record, key, value) ==
    [k \in (DOMAIN record) \cup {key} |-> IF k = key THEN value ELSE record[k]]

\* table[code] || code
FieldName(table, code) == IF code \in DOMAIN table THEN table[code] ELSE code

companyFields ==
    (<<"S10", "G00", "00", "001">> :> <<"softwareName">>) @@
    (<<"S10", "G00", "00", "002">> :> <<"softwareEditor">>) @@
    (<<"S10", "G00", "00", "003">> :> <<"softwareVersion">>) @@
    (<<"S10", "G00", "01", "001">> :> <<"siret">>) @@
    (<<"S10", "G00", "01", "003">> :> <<"companyName">>) @@
    (<<"S10", "G00", "01", "004">> :> <<"address">>) @@
    (<<"S10", "G00", "01", "006">> :> <<"city">>) @@
    (<<"S10", "G00", "01", "009">> :> <<"contactName">>)

establishmentFields ==
    (<<"S20", "G00", "05", "001">> :> <<"establishmentType">>) @@
    (<<"S20", "G00", "05", "002">> :> <<"codeMotif">>) @@
    (<<"S20", "G00", "05", "004">> :> <<"siret">>) @@
    (<<"S20", "G00", "05", "005">> :> <<"dateDebutPeriode">>)

identityMapping ==
    (<<"S21", "G00", "06", "001">> :> <<"nir">>) @@
    (<<"S21", "G00", "06", "002">> :> <<"codeInterne">>) @@
    (<<"S21", "G00", "06", "003">> :> <<"nomUsage">>) @@
    (<<"S21", "G00", "06", "004">> :> <<"adresse">>) @@
    (<<"S21", "G00", "06", "005">> :> <<"codePostal">>) @@
    (<<"S21", "G00", "06", "006">> :> <<"ville">>)

addressMapping ==
    (<<"S21", "G00", "11", "001">> :> <<"siret">>) @@
    (<<"S21", "G00", "11", "002">> :> <<"nic">>) @@
    (<<"S21", "G00", "11", "003">> :> <<"adresse">>)

personalMapping ==
    (<<"S21", "G00", "30", "001">> :> <<"nir">>) @@
    (<<"S21", "G00", "30", "002">> :> <<"nomFamille">>) @@
    (<<"S21", "G00", "30", "003">> :> <<"prenoms">>) @@
    (<<"S21", "G00", "30", "004">> :> <<"nomUsage">>) @@
    (<<"S21", "G00", "30", "005">> :> <<"sexe">>) @@
    (<<"S21", "G00", "30", "006">> :> <<"dateNaissance">>) @@
    (<<"S21", "G00", "30", "007">> :> <<"lieuNaissance">>) @@
    (<<"S21", "G00", "30", "008">> :> <<"adresse">>) @@
    (<<"S21", "G00", "30", "009">> :> <<"codePostal">>) @@
    (<<"S21", "G00", "30", "010">> :> <<"ville">>) @@
    (<<"S21", "G00", "30", "011">> :> <<"paysDomicile">>) @@
    (<<"S21", "G00", "30", "029">> :> <<"nationalite">>)

contractMapping ==
    (<<"S21", "G00", "40", "001">> :> <<"dateNaissance">>) @@
    (<<"S21", "G00", "40", "002">> :> <<"sexe">>) @@
    (<<"S21", "G00", "40", "003">> :> <<"typeContrat">>) @@
    (<<"S21", "G00", "40", "005">> :> <<"statutCategorie">>) @@
    (<<"S21", "G00", "40", "006">> :> <<"emploi">>) @@
    (<<"S21", "G00", "40", "010">> :> <<"dateDebutContrat">>) @@
    (<<"S21", "G00", "40", "030">> :> <<"dateFinContrat">>)

salaryMapping ==
    (<<"S21", "G00", "50", "001">> :> <<"debutPeriode">>) @@
    (<<"S21", "G00", "50", "002">> :> <<"montantRemuneration">>)

periodMapping ==
    (<<"S21", "G00", "51", "001">> :> <<"debutPeriode">>) @@
    (<<"S21", "G00", "51", "002">> :> <<"finPeriode">>)

\* each handler returns the record it was given, after the assignment
handleCompanyData(comp, code, value) ==
    [comp EXCEPT !.companyInfo = Put(@, FieldName(companyFields, code), value)]

handleEstablishmentData(establishment, code, value) ==
    [establishment EXCEPT
        !.establishmentInfo = Put(@, FieldName(establishmentFields, code), value)]

handleIdentityData(identity, code, value) ==
    Put(identity, FieldName(identityMapping, code), value)

handleAddressData(address, code, value) ==
    Put(address, FieldName(addressMapping, code), value)

handlePersonalData(personal, code, value) ==
    Put(personal, FieldName(personalMapping, code), value)

handleContractData(contract, code, value) ==
    Put(contract, FieldName(contractMapping, code), value)

handleSalaryData(salary, code, value) ==
    Put(salary, FieldName(salaryMapping, code), value)

handlePeriodData(period, code, value) ==
    Put(period, FieldName(periodMapping, code), value)

----------------------------------------------------------------------------
(* The main walk of parseDsnContent *)

Undefined == <<>>          \* an optional property that is not set
Some(x) == <<x>>           \* an optional property that is set
EmptyObject == <<>>        \* {}
NullRef == [est |-> 0, emp |-> 0]

MarkerCode == <<"S21", "G00", "30">>
IdentityCode == <<"S21", "G00", "06">>
AddressCode == <<"S21", "G00", "11">>

\* the local variables of parseDsnContent, as one record
Locals ==
    [company |-> company,
     currentEstablishment |-> currentEstablishment,
     currentEmployee |-> currentEmployee,
     employeeCounter |-> employeeCounter,
     currentBlock |-> currentBlock,
     inIdentityBlock |-> inIdentityBlock,
     inAddressBlock |-> inAddressBlock,
     inPersonalBlock |-> inPersonalBlock,
     inContractBlock |-> inContractBlock,
     inSalaryBlock |-> inSalaryBlock,
     inPeriodBlock |-> inPeriodBlock]

\* the declarations of lines 104-120
InitialLocals ==
    [company |-> [companyInfo |-> EmptyObject, establishments |-> <<>>],
     currentEstablishment |-> 0,
     currentEmployee |-> NullRef,
     employeeCounter |-> 0,
     currentBlock |-> <<>>,
     inIdentityBlock |-> FALSE,
     inAddressBlock |-> FALSE,
     inPersonalBlock |-> FALSE,
     inContractBlock |-> FALSE,
     inSalaryBlock |-> FALSE,
     inPeriodBlock |-> FALSE]

\* the else-if chain of lines 143-155: the flag a header code sets
BlockFlagOf(code) ==
    IF startsWith(code, <<"S21", "G00", "06">>) THEN "identity"
    ELSE IF startsWith(code, <<"S21", "G00", "11">>) THEN "address"
    ELSE IF startsWith(code, <<"S21", "G00", "30">>) THEN "personal"
    ELSE IF startsWith(code, <<"S21", "G00", "40">>) THEN "contract"
    ELSE IF startsWith(code, <<"S21", "G00", "50">>) THEN "salary"
    ELSE IF startsWith(code, <<"S21", "G00", "51">>) THEN "period"
    ELSE "none"

\* TrackHeader without the reset of lines 134-140
TrackHeaderWithoutReset(s, tok) ==
    IF tok.isHeader
    THEN [s EXCEPT !.currentBlock = tok.code,
                   !.inIdentityBlock = @ \/ (BlockFlagOf(tok.code) = "identity"),
                   !.inAddressBlock = @ \/ (BlockFlagOf(tok.code) = "address"),
                   !.inPersonalBlock = @ \/ (BlockFlagOf(tok.code) = "personal"),
                   !.inContractBlock = @ \/ (BlockFlagOf(tok.code) = "contract"),
                   !.inSalaryBlock = @ \/ (BlockFlagOf(tok.code) = "salary"),
                   !.inPeriodBlock = @ \/ (BlockFlagOf(tok.code) = "period")]
    ELSE s

\* lines 131-156
TrackHeader(s, tok) ==
    IF tok.isHeader
    THEN [s EXCEPT !.currentBlock = tok.code,
                   !.inIdentityBlock = (BlockFlagOf(tok.code) = "identity"),
                   !.inAddressBlock = (BlockFlagOf(tok.code) = "address"),
                   !.inPersonalBlock = (BlockFlagOf(tok.code) = "personal"),
                   !.inContractBlock = (BlockFlagOf(tok.code) = "contract"),
                   !.inSalaryBlock = (BlockFlagOf(tok.code) = "salary"),
                   !.inPeriodBlock = (BlockFlagOf(tok.code) = "period")]
    ELSE s

\* lines 166-170 and 181-185: a new establishment is pushed and becomes current
PushEstablishment(s) ==
    [s EXCEPT
        !.company.establishments =
            Append(@, [establishmentInfo |-> EmptyObject, employees |-> <<>>]),
        !.currentEstablishment = Len(s.company.establishments) + 1]

\* EstablishmentCase opening an establishment only when none is open
EstablishmentCaseKeepsOpen(s, tok) ==
    LET s1 == IF s.currentEstablishment = 0 THEN PushEstablishment(s) ELSE s
    IN  IF ~tok.isHeader
        THEN [s1 EXCEPT !.company.establishments[s1.currentEstablishment] =
                            handleEstablishmentData(@, tok.code, tok.value)]
        ELSE s1

\* lines 164-176, case "S20"
EstablishmentCase(s, tok) ==
    LET s1 == IF tok.isHeader \/ s.currentEstablishment = 0
              THEN PushEstablishment(s) ELSE s
    IN  IF ~tok.isHeader
        THEN [s1 EXCEPT !.company.establishments[s1.currentEstablishment] =
                            handleEstablishmentData(@, tok.code, tok.value)]
        ELSE s1

\* GetsContainers without the test of the counter being 1 exactly
GetsContainersEveryEmployee(counter, establishment) == counter >= 1

\* GetsContainers with the test of the establishment alone
GetsContainersPerEstablishment(counter, establishment) ==
    Len(establishment.employees) = 0

\* lines 199-207: does the new employee get the identity and address containers
GetsContainers(counter, establishment) ==
    counter = 1 /\ Len(establishment.employees) = 0

\* NextEmployeeId numbering inside the current establishment
NextEmployeeIdInEstablishment(s) ==
    Len(s.company.establishments[s.currentEstablishment].employees) + 1

\* line 192: the id given to the employee that is created
NextEmployeeId(s) == s.employeeCounter

\* StartEmployee with the new employee taking the place of the list
StartEmployeeReplacesList(s) ==
    LET s1 == [s EXCEPT !.employeeCounter = @ + 1]
        cur == s1.currentEstablishment
        establishment == s1.company.establishments[cur]
        first == GetsContainers(s1.employeeCounter, establishment)
        employee ==
            [employeeId |-> NextEmployeeId(s1),
             identity |-> IF first THEN Some(EmptyObject) ELSE Undefined,
             address |-> IF first THEN Some(EmptyObject) ELSE Undefined,
             personal |-> EmptyObject,
             contract |-> EmptyObject,
             salary |-> EmptyObject,
             period |-> EmptyObject]
    IN  [s1 EXCEPT
            !.company.establishments[cur].employees = <<employee>>,
            !.currentEmployee = [est |-> cur, emp |-> 1]]

\* lines 189-211: the employee-start marker
StartEmployee(s) ==
    LET s1 == [s EXCEPT !.employeeCounter = @ + 1]
        cur == s1.currentEstablishment
        establishment == s1.company.establishments[cur]
        first == GetsContainers(s1.employeeCounter, establishment)
        employee ==
            [employeeId |-> NextEmployeeId(s1),
             identity |-> IF first THEN Some(EmptyObject) ELSE Undefined,
             address |-> IF first THEN Some(EmptyObject) ELSE Undefined,
             personal |-> EmptyObject,
             contract |-> EmptyObject,
             salary |-> EmptyObject,
             period |-> EmptyObject]
    IN  [s1 EXCEPT
            !.company.establishments[cur].employees = Append(@, employee),
            !.currentEmployee = [est |-> cur, emp |-> Len(establishment.employees) + 1]]

\* RouteData choosing the block by the code of the data line
RouteDataByCode(s, employee, tok) ==
    IF BlockFlagOf(tok.code) = "identity" /\ employee.identity # Undefined
    THEN [employee EXCEPT
            !.identity = Some(handleIdentityData(@[1], tok.code, tok.value))]
    ELSE IF BlockFlagOf(tok.code) = "address" /\ employee.address # Undefined
    THEN [employee EXCEPT
            !.address = Some(handleAddressData(@[1], tok.code, tok.value))]
    ELSE IF BlockFlagOf(tok.code) = "personal"
    THEN [employee EXCEPT !.personal = handlePersonalData(@, tok.code, tok.value)]
    ELSE IF BlockFlagOf(tok.code) = "contract"
    THEN [employee EXCEPT !.contract = handleContractData(@, tok.code, tok.value)]
    ELSE IF BlockFlagOf(tok.code) = "salary"
    THEN [employee EXCEPT !.salary = handleSalaryData(@, tok.code, tok.value)]
    ELSE IF BlockFlagOf(tok.code) = "period"
    THEN [employee EXCEPT !.period = handlePeriodData(@, tok.code, tok.value)]
    ELSE employee

\* lines 214-228: a data line is routed to the block whose flag is set
RouteData(s, employee, tok) ==
    IF s.inIdentityBlock /\ employee.identity # Undefined
    THEN [employee EXCEPT
            !.identity = Some(handleIdentityData(@[1], tok.code, tok.value))]
    ELSE IF s.inAddressBlock /\ employee.address # Undefined
    THEN [employee EXCEPT
            !.address = Some(handleAddressData(@[1], tok.code, tok.value))]
    ELSE IF s.inPersonalBlock
    THEN [employee EXCEPT !.personal = handlePersonalData(@, tok.code, tok.value)]
    ELSE IF s.inContractBlock
    THEN [employee EXCEPT !.contract = handleContractData(@, tok.code, tok.value)]
    ELSE IF s.inSalaryBlock
    THEN [employee EXCEPT !.salary = handleSalaryData(@, tok.code, tok.value)]
    ELSE IF s.inPeriodBlock
    THEN [employee EXCEPT !.period = handlePeriodData(@, tok.code, tok.value)]
    ELSE employee

\* EmployeeCase with an establishment pushed for every S21 line
EmployeeCaseAlwaysPushes(s, tok) ==
    LET s1 == PushEstablishment(s)
        s2 == IF tok.code = MarkerCode /\ tok.isHeader THEN StartEmployee(s1) ELSE s1
        ref == s2.currentEmployee
    IN  IF ref # NullRef /\ ~tok.isHeader
        THEN [s2 EXCEPT !.company.establishments[ref.est].employees[ref.emp] =
                            RouteData(s2, @, tok)]
        ELSE s2

\* lines 178-239, case "S21"
EmployeeCase(s, tok) ==
    LET s1 == IF s.currentEstablishment = 0 THEN PushEstablishment(s) ELSE s
        s2 == IF tok.code = MarkerCode /\ tok.isHeader THEN StartEmployee(s1) ELSE s1
        ref == s2.currentEmployee
    IN  IF ref # NullRef /\ ~tok.isHeader
        THEN [s2 EXCEPT !.company.establishments[ref.est].employees[ref.emp] =
                            RouteData(s2, @, tok)]
        ELSE s2

\* lines 128-240: one well-formed line
ProcessToken(s, tok) ==
    LET s1 == TrackHeader(s, tok)
    IN  CASE tok.block = "S10" ->
                [s1 EXCEPT !.company = handleCompanyData(@, tok.code, tok.value)]
          [] tok.block = "S20" -> EstablishmentCase(s1, tok)
          [] tok.block = "S21" -> EmployeeCase(s1, tok)
          [] OTHER -> s1

\* lines 123-243: one iteration of the for loop
ProcessLine(s, line) ==
    LET parsed == parseLine(line)
    IN  IF parsed = <<>> THEN s ELSE ProcessToken(s, parsed[1])

\* lines 122-244: the for loop from a given state
RECURSIVE WalkLines(_, _)
WalkLines(s, ls) ==
    IF ls = <<>> THEN s ELSE WalkLines(ProcessLine(s, Head(ls)), Tail(ls))

----------------------------------------------------------------------------
(* The backfill pass and the result *)

RECURSIVE backfillLoop(_, _, _, _, _)
backfillLoop(ls, k, inIdentity, inAddress, employee) ==
    IF k > Len(ls) THEN employee
    ELSE LET parsed == parseLine(ls[k])
         IN  IF parsed = <<>>
             THEN backfillLoop(ls, k + 1, inIdentity, inAddress, employee)
             ELSE LET tok == parsed[1]
                  IN  IF tok.isHeader
                      THEN IF tok.code = MarkerCode
                           THEN employee
                           ELSE backfillLoop(ls, k + 1, tok.code = IdentityCode,
                                             tok.code = AddressCode, employee)
                      ELSE IF inIdentity /\ employee.identity # Undefined
                      THEN backfillLoop(ls, k + 1, inIdentity, inAddress,
                               [employee EXCEPT !.identity =
                                   Some(handleIdentityData(@[1], tok.code, tok.value))])
                      ELSE IF inAddress /\ employee.address # Undefined
                      THEN backfillLoop(ls, k + 1, inIdentity, inAddress,
                               [employee EXCEPT !.address =
                                   Some(handleAddressData(@[1], tok.code, tok.value))])
                      ELSE backfillLoop(ls, k + 1, inIdentity, inAddress, employee)

\* lines 434-447: the two flags of the backfill pass once it has read the
\* lines ls, none of which is the employee-start marker
RECURSIVE backfillFlags(_, _, _, _)
backfillFlags(ls, k, inIdentity, inAddress) ==
    IF k > Len(ls) THEN [inIdentityBlock |-> inIdentity, inAddressBlock |-> inAddress]
    ELSE LET parsed == parseLine(ls[k])
         IN  IF parsed # <<>> /\ parsed[1].isHeader
             THEN backfillFlags(ls, k + 1, parsed[1].code = IdentityCode,
                                parsed[1].code = AddressCode)
             ELSE backfillFlags(ls, k + 1, inIdentity, inAddress)

\* lines 433-456
backfillFirstEmployeeData(ls, firstEmployee) ==
    backfillLoop(ls, 1, FALSE, FALSE, firstEmployee)

\* line 247: the establishment whose first employee is looked at, 0 when
\* the test of line 247 fails
BackfillEstablishment(s) ==
    IF s.currentEstablishment # 0
       /\ Len(s.company.establishments[s.currentEstablishment].employees) > 0
    THEN s.currentEstablishment
    ELSE 0

\* lines 247-253: is backfillFirstEmployeeData called
BackfillNeeded(s) ==
    /\ BackfillEstablishment(s) # 0
    /\ LET firstEmployee ==
               s.company.establishments[BackfillEstablishment(s)].employees[1]
       IN  /\ firstEmployee.identity # Undefined
           /\ DOMAIN firstEmployee.identity[1] = {}

\* lines 246-253: the company once the backfill has been applied
AfterBackfill(s, ls) ==
    IF BackfillNeeded(s)
    THEN [s.company EXCEPT
            !.establishments[BackfillEstablishment(s)].employees[1] =
                backfillFirstEmployeeData(ls, @)]
    ELSE s.company

\* lines 461-466
RECURSIVE countEmployeesFrom(_, _)
countEmployeesFrom(establishments, total) ==
    IF establishments = <<>> THEN total
    ELSE countEmployeesFrom(Tail(establishments),
                            total + Len(Head(establishments).employees))

\* countTotalEmployees with a reducer that drops its accumulator
countTotalEmployeesNoAccumulator(comp) ==
    IF comp.establishments = <<>> THEN 0
    ELSE Len(comp.establishments[Len(comp.establishments)].employees)

countTotalEmployees(comp) == countEmployeesFrom(comp.establishments, 0)

\* lines 255-269
BuildResult(comp, fname, now) ==
    [company |-> comp,
     metadata |-> [totalEmployees |-> countTotalEmployees(comp),
                   totalEstablishments |-> Len(comp.establishments),
                   parsedAt |-> now,
                   filename |-> fname,
                   parsingMethod |-> "S21.G00.30_delimiter"]]

\* lines 98-270 as a function of the arguments and of the clock
parseDsnContent(raw, fname, now) ==
    LET ls == FilterLines(raw)
        s == WalkLines(InitialLocals, ls)
    IN  BuildResult(AfterBackfill(s, ls), fname, now)

----------------------------------------------------------------------------
(* The files of the model *)

A == <<"A">>
B == <<"B">>

CompanyDataLine == DataLine(<<"S10", "G00", "01", "001">>, A)
EstablishmentHeader == HeaderLine(<<"S20", "G00", "05">>)
EstablishmentDataLine == DataLine(<<"S20", "G00", "05", "004">>, A)
IdentityHeader == HeaderLine(IdentityCode)
IdentityDataLine == DataLine(<<"S21", "G00", "06", "001">>, A)
AddressHeader == HeaderLine(AddressCode)
AddressDataLine == DataLine(<<"S21", "G00", "11", "001">>, B)
Marker == HeaderLine(MarkerCode)
PersonalDataLineA == DataLine(<<"S21", "G00", "30", "001">>, A)
PersonalDataLineB == DataLine(<<"S21", "G00", "30", "001">>, B)
TotalsHeader == HeaderLine(<<"S90", "G00", "90">>)
BlankLine == Line(<<>>, <<"\r">>)                               \* an empty line of a CRLF file
UnquotedLine == Line(<<"S21", "G00", "30", "001">>, <<",", "A">>)  \* S21.G00.30.001,A

NameDataLine == DataLine(<<"S21", "G00", "30", "002">>, A)
ContractHeader == HeaderLine(<<"S21", "G00", "40">>)
ContractTypeLine == DataLine(<<"S21", "G00", "40", "003">>, A)
SalaryHeader == HeaderLine(<<"S21", "G00", "50">>)
PeriodHeader == HeaderLine(<<"S21", "G00", "51">>)
CompanyHeader == HeaderLine(<<"S10", "G00", "01">>)

RawLines ==
    {CompanyDataLine, EstablishmentHeader, EstablishmentDataLine,
     IdentityHeader, IdentityDataLine, AddressHeader, AddressDataLine,
     Marker, PersonalDataLineA, PersonalDataLineB, TotalsHeader,
     BlankLine, UnquotedLine}

FileNames == {"dsn.txt"}

\* the files and the names of the calls of SpecCalls
CallLines == {EstablishmentHeader, IdentityHeader, Marker, PersonalDataLineA}
CallFileNames == {"dsn.txt", "other.txt"}

\* an identity field line with an empty value: a header token
IdentityFieldHeader == HeaderLine(<<"S21", "G00", "06", "002">>)

\* the lines of the files of SpecBackfill: what can stand before the first
\* employee-start marker, and the marker
AddressDataLineA == DataLine(<<"S21", "G00", "11", "001">>, A)
BackfillLines ==
    {IdentityHeader, IdentityFieldHeader, IdentityDataLine, AddressHeader,
     AddressDataLine, AddressDataLineA, EstablishmentHeader, Marker}

\* the lines of the files of SpecBlocks: the six block headers of an
\* employee, headers of the other prefixes, and data lines of two blocks
BlockLines ==
    {IdentityHeader, AddressHeader, Marker, ContractHeader, SalaryHeader,
     PeriodHeader, CompanyHeader, EstablishmentHeader, TotalsHeader,
     PersonalDataLineA, ContractTypeLine}

----------------------------------------------------------------------------
(* The parser as a state machine: the file is read line by line *)

SetLocals(s) ==
    /\ company' = s.company
    /\ currentEstablishment' = s.currentEstablishment
    /\ currentEmployee' = s.currentEmployee
    /\ employeeCounter' = s.employeeCounter
    /\ currentBlock' = s.currentBlock
    /\ inIdentityBlock' = s.inIdentityBlock
    /\ inAddressBlock' = s.inAddressBlock
    /\ inPersonalBlock' = s.inPersonalBlock
    /\ inContractBlock' = s.inContractBlock
    /\ inSalaryBlock' = s.inSalaryBlock
    /\ inPeriodBlock' = s.inPeriodBlock

\* lines 122-244: one line of the file goes through one iteration of the loop
ConsumeLine(line) ==
    /\ pc = "walk"
    /\ content' = Append(content, line)
    /\ \E s \in {IF NonBlank(line) THEN ProcessLine(Locals, line) ELSE Locals} :
           SetLocals(s)
    /\ UNCHANGED <<filename, pc, backfillRuns, result, calls, clock, firstCall,
                   mapperVars, clientVars, callVars>>

\* the next line of the file goes through one iteration of the loop
Consume(line) == Len(content) < MaxLines /\ ConsumeLine(line)

\* the raw lines by the path they take through the loop body
FilteredLines == {line \in RawLines : ~NonBlank(line)}
SkippedLines == {line \in RawLines : NonBlank(line) /\ parseLine(line) = <<>>}
WellFormedLines == {line \in RawLines : parseLine(line) # <<>>}
LinesOfBlock(blocks) == {line \in WellFormedLines : parseLine(line)[1].block \in blocks}
CompanyLines == LinesOfBlock({"S10"})
EstablishmentLines == LinesOfBlock({"S20"})
EmployeeLines == LinesOfBlock({"S21"})
UnroutedLines == WellFormedLines \ LinesOfBlock({"S10", "S20", "S21"})

\* line 101: a blank line is filtered out before the loop
FilteredLine == \E line \in FilteredLines : Consume(line)

\* line 126: parseLine returns null, the loop continues
SkippedLine == \E line \in SkippedLines : Consume(line)

\* case "S10"
CompanyLine == \E line \in CompanyLines : Consume(line)

\* case "S20"
EstablishmentLine == \E line \in EstablishmentLines : Consume(line)

\* case "S21"
EmployeeLine == \E line \in EmployeeLines : Consume(line)

\* a block the switch has no case for
UnroutedLine == \E line \in UnroutedLines : Consume(line)

\* lines 246-269: the end of the file is reached
Return ==
    /\ pc = "walk"
    /\ \E comp \in {AfterBackfill(Locals, FilterLines(content))} :
           /\ company' = comp
           /\ result' = Some(BuildResult(comp, filename, clock))
           /\ firstCall' =
                 IF firstCall = <<>>
                 THEN Some([content |-> content, filename |-> filename,
                            result |-> BuildResult(comp, filename, clock),
                            others |-> 0])
                 ELSE IF content # firstCall[1].content
                 THEN Some([firstCall[1] EXCEPT !.others = @ + 1])
                 ELSE firstCall
    /\ backfillRuns' = backfillRuns + (IF BackfillNeeded(Locals) THEN 1 ELSE 0)
    /\ pc' = "done"
    /\ UNCHANGED <<content, filename, currentEstablishment, currentEmployee,
                   employeeCounter, currentBlock, inIdentityBlock, inAddressBlock,
                   inPersonalBlock, inContractBlock, inSalaryBlock, inPeriodBlock,
                   calls, clock, mapperVars, clientVars, callVars>>

\* EnterParse with employeeCounter kept from one call to the next, as a
\* static field of the class would be
EnterParseKeepsCounter(previous) ==
    [InitialLocals EXCEPT !.employeeCounter = previous.employeeCounter]

\* the locals at the entry of a call, given those the call before left: all
\* are declared anew (lines 104-120)
EnterParse(previous) == InitialLocals

\* parseDsnContent is called again, with another file
NewCall ==
    /\ pc = "done"
    /\ calls < MaxCalls
    /\ calls' = calls + 1
    /\ clock' = clock + 1
    /\ \E f \in CallFileNames : filename' = f
    /\ content' = <<>>
    /\ \E s \in {EnterParse(Locals)} : SetLocals(s)
    /\ pc' = "walk"
    /\ backfillRuns' = 0
    /\ result' = <<>>
    /\ UNCHANGED <<firstCall, mapperVars, clientVars, callVars>>

SetInitialLocals ==
    /\ company = InitialLocals.company
    /\ currentEstablishment = InitialLocals.currentEstablishment
    /\ currentEmployee = InitialLocals.currentEmployee
    /\ employeeCounter = InitialLocals.employeeCounter
    /\ currentBlock = InitialLocals.currentBlock
    /\ inIdentityBlock = InitialLocals.inIdentityBlock
    /\ inAddressBlock = InitialLocals.inAddressBlock
    /\ inPersonalBlock = InitialLocals.inPersonalBlock
    /\ inContractBlock = InitialLocals.inContractBlock
    /\ inSalaryBlock = InitialLocals.inSalaryBlock
    /\ inPeriodBlock = InitialLocals.inPeriodBlock

MapperIdle ==
    /\ employees = <<>>
    /\ currentYear = 0
    /\ tz = 0
    /\ reportingPeriod = <<>>
    /\ answers = <<>>
    /\ mpc = "idle"
    /\ parsedData = <<>>
    /\ firstMapping = <<>>

ClientIdle ==
    /\ parsedDsnData = <<>>
    /\ userAnswers = EmptyObject
    /\ overridden = EmptyObject

NoCall ==
    /\ args = <<>>
    /\ returned = <<>>

Init ==
    /\ content = <<>>
    /\ filename \in FileNames
    /\ SetInitialLocals
    /\ pc = "walk"
    /\ backfillRuns = 0
    /\ result = <<>>
    /\ calls = 1
    /\ clock = 1
    /\ firstCall = <<>>
    /\ MapperIdle
    /\ ClientIdle
    /\ NoCall

Next ==
    \/ FilteredLine
    \/ SkippedLine
    \/ CompanyLine
    \/ EstablishmentLine
    \/ EmployeeLine
    \/ UnroutedLine
    \/ Return

Spec == Init /\ [][Next]_vars

\* one iteration of the loop, in the runs with several calls
CallLine ==
    \E line \in CallLines : Len(content) < MaxCallLines /\ Consume(line)

NextCalls ==
    \/ CallLine
    \/ Return
    \/ NewCall

SpecCalls == Init /\ [][NextCalls]_vars

\* the parse of a file of lines of BlockLines
BlockLine ==
    \E line \in BlockLines : Consume(line)

NextBlocks ==
    \/ BlockLine
    \/ Return

SpecBlocks == Init /\ [][NextBlocks]_vars

\* one iteration of the loop, in the runs on the files of BackfillLines
BackfillLine ==
    \E line \in BackfillLines : Len(content) < MaxBackfillLines /\ ConsumeLine(line)

NextBackfill ==
    \/ BackfillLine
    \/ Return

SpecBackfill == Init /\ [][NextBackfill]_vars

----------------------------------------------------------------------------
(* Dates of the question mapper *)

\* A Date is [valid, time]: time is its instant in hours, counted on a
\* calendar that gives every month 31 days and every year 12 such months,
\* which keeps the order of the instants and the year of a date, the two
\* things the mapper reads.  An Invalid Date (time NaN) is [valid |-> FALSE].
DaysPerMonth == 31
MonthsPerYear == 12
HoursPerDay == 24

InvalidDate == [valid |-> FALSE, time |-> 0]
DayIndex(year, month, day) ==
    (year * MonthsPerYear + (month - 1)) * DaysPerMonth + (day - 1)

\* midnight UTC of a day: new Date("YYYY-MM-DD")
UTCDate(year, month, day) ==
    [valid |-> TRUE, time |-> DayIndex(year, month, day) * HoursPerDay]

\* midnight local time of a day, the zone being `zone` hours ahead of UTC:
\* what date-fns parseISO returns for a date without time
LocalDate(year, month, day, zone) ==
    [valid |-> TRUE, time |-> DayIndex(year, month, day) * HoursPerDay - zone]

\* Date.prototype.getFullYear (local time); NaN, here -1, for an Invalid Date
getFullYear(date, zone) ==
    IF date.valid
    THEN ((date.time + zone) \div HoursPerDay) \div (DaysPerMonth * MonthsPerYear)
    ELSE -1

DigitValue ==
    ("0" :> 0) @@ ("1" :> 1) @@ ("2" :> 2) @@ ("3" :> 3) @@ ("4" :> 4) @@
    ("5" :> 5) @@ ("6" :> 6) @@ ("7" :> 7) @@ ("8" :> 8) @@ ("9" :> 9)
IsDigits(cs) == \A k \in 1..Len(cs) : cs[k] \in DOMAIN DigitValue

RECURSIVE NumberOf(_)
NumberOf(cs) ==
    IF cs = <<>> THEN 0
    ELSE 10 * NumberOf(SubSeq(cs, 1, Len(cs) - 1)) + DigitValue[cs[Len(cs)]]

IsLeapYear(year) == (year % 4 = 0 /\ year % 100 # 0) \/ year % 400 = 0
DaysInMonth(year, month) ==
    IF month = 2 THEN (IF IsLeapYear(year) THEN 29 ELSE 28)
    ELSE IF month \in {4, 6, 9, 11} THEN 30
    ELSE 31

\* date-fns parseISO on `${year}-${month}-${day}`, the three parts being
\* strings of 4, 2 and 2 characters (digits or letters): the date at local
\* midnight, or an Invalid Date; it does not throw
parseISO(year, month, day, zone) ==
    IF /\ IsDigits(year) /\ IsDigits(month) /\ IsDigits(day)
       /\ NumberOf(month) \in 1..12
       /\ NumberOf(day) \in 1..DaysInMonth(NumberOf(year), NumberOf(month))
    THEN LocalDate(NumberOf(year), NumberOf(month), NumberOf(day), zone)
    ELSE InvalidDate

\* lines 27-39: <<>> is null, else << date >>; the catch is never entered
parseDsnDate(dsnDate, zone) ==
    IF dsnDate = <<>> \/ Len(dsnDate) # 8 THEN <<>>
    ELSE << parseISO(SubSeq(dsnDate, 1, 4), SubSeq(dsnDate, 5, 6),
                     SubSeq(dsnDate, 7, 8), zone) >>

\* date-fns isAfter: false when one of the two is an Invalid Date
isAfter(date, dateToCompare) ==
    date.valid /\ dateToCompare.valid /\ date.time > dateToCompare.time

----------------------------------------------------------------------------
(* The reporting period *)

\* record.key on a JavaScript object: undefined and "" are both <<>>
Get(record, key) == IF key \in DOMAIN record THEN record[key] ELSE <<>>
Truthy(value) == value # <<>>

FallbackYear == 2025
ReasonablePast == 5
ReasonableFuture == 1

\* lines 117-120, 121-124, 127-130: the date a field adds to allDates
DateOfField(value, zone) ==
    IF Truthy(value) THEN parseDsnDate(value, zone) ELSE <<>>

\* lines 115-131
RECURSIVE allDatesOf(_, _)
allDatesOf(emps, zone) ==
    IF emps = <<>> THEN <<>>
    ELSE DateOfField(Get(Head(emps).period, <<"debutPeriode">>), zone)
         \o DateOfField(Get(Head(emps).period, <<"finPeriode">>), zone)
         \o DateOfField(Get(Head(emps).salary, <<"debutPeriode">>), zone)
         \o allDatesOf(Tail(emps), zone)

\* lines 147-151
IsReasonable(date, year, zone) ==
    /\ getFullYear(date, zone) >= year - ReasonablePast
    /\ getFullYear(date, zone) <= year + ReasonableFuture

\* lines 143-163: the first and the last of the reasonable dates once
\* allDates is sorted.  With an Invalid Date in allDates the comparator of
\* line 143 returns NaN and the order Array.prototype.sort leaves is
\* implementation-defined: any two places of the list can come first and last.
RangesOf(allDates, year, zone) ==
    LET kept == {k \in 1..Len(allDates) : IsReasonable(allDates[k], year, zone)}
        consistent == \A k \in 1..Len(allDates) : allDates[k].valid
    IN  {[startDate |-> allDates[i], endDate |-> allDates[j]] :
            <<i, j>> \in {ij \in kept \X kept :
                /\ (ij[1] = ij[2]) = (Cardinality(kept) = 1)
                /\ consistent =>
                      /\ \A k \in kept : allDates[ij[1]].time <= allDates[k].time
                      /\ \A k \in kept : allDates[k].time <= allDates[ij[2]].time}}

\* getReportingPeriod taking the first and the last of the dates as collected
getReportingPeriodUnfiltered(emps, year, zone) ==
    LET allDates == allDatesOf(emps, zone)
    IN  IF Len(allDates) = 0
        THEN {[startDate |-> UTCDate(FallbackYear, 1, 1),
               endDate |-> UTCDate(FallbackYear, 12, 31)]}
        ELSE {[startDate |-> allDates[1], endDate |-> allDates[Len(allDates)]]}

\* lines 109-170: the periods getReportingPeriod can return
getReportingPeriod(emps, year, zone) ==
    LET allDates == allDatesOf(emps, zone)
    IN  IF Len(allDates) = 0
        THEN {[startDate |-> UTCDate(FallbackYear, 1, 1),
               endDate |-> UTCDate(FallbackYear, 12, 31)]}
        ELSE IF RangesOf(allDates, year, zone) = {}
        THEN {[startDate |-> UTCDate(year, 1, 1),
               endDate |-> UTCDate(year, 12, 31)]}
        ELSE RangesOf(allDates, year, zone)

----------------------------------------------------------------------------
(* The calculation functions *)

\* Math.round(count * tenths / 10), halves going up
RoundTenths(count, tenths) == (2 * count * tenths + 10) \div 20

AveragePresenceTenths == 8
TurnoverTenths == 3

\* calculateEmployeesEndOfPeriod not asking for a contract start date
calculateEmployeesEndOfPeriodByNir(emps, period) ==
    LET valid(emp) ==
            /\ Truthy(Get(emp.personal, <<"nir">>))
            /\ Truthy(Get(emp.personal, <<"nomFamille">>))
    IN  Len(SelectSeq(emps, valid))

\* lines 176-196
calculateEmployeesEndOfPeriod(emps, period) ==
    LET valid(emp) ==
            /\ Truthy(Get(emp.contract, <<"dateDebutContrat">>))
            /\ Truthy(Get(emp.personal, <<"nir">>))
            /\ Truthy(Get(emp.personal, <<"nomFamille">>))
    IN  Len(SelectSeq(emps, valid))

\* lines 202-216
calculateEmployeesAverage(emps, period) ==
    LET valid(emp) ==
            /\ Truthy(Get(emp.contract, <<"dateDebutContrat">>))
            /\ Truthy(Get(emp.personal, <<"nir">>))
    IN  RoundTenths(Len(SelectSeq(emps, valid)), AveragePresenceTenths)

\* lines 221-234
calculateEmployeesLeft(emps, period) ==
    LET withEndDate(emp) ==
            /\ Truthy(Get(emp.contract, <<"dateFinContrat">>))
            /\ Truthy(Get(emp.personal, <<"nir">>))
    IN  RoundTenths(Len(SelectSeq(emps, withEndDate)), TurnoverTenths)

\* lines 253-274
calculateEmployeesAtStart(emps, period, zone) ==
    LET activeAtStart(emp) ==
            LET contractStartDate ==
                    DateOfField(Get(emp.contract, <<"dateDebutContrat">>), zone)
                contractEndDate ==
                    DateOfField(Get(emp.contract, <<"dateFinContrat">>), zone)
            IN  /\ contractStartDate # <<>>
                /\ ~isAfter(contractStartDate[1], period.startDate)
                /\ (contractEndDate = <<>>
                    \/ isAfter(contractEndDate[1], period.startDate))
    IN  Len(SelectSeq(emps, activeAtStart))

\* a percentage with two decimals is the integer of its hundredths:
\* Math.round(n / d * 100 * 100) / 100, for n and d small enough for the
\* floating-point quotient to round as the exact one
PercentHundredths(n, d) == (2 * n * 10000 + d) \div (2 * d)

\* calculateTurnoverPercentage rounding to a whole percent
calculateTurnoverWholePercent(emps, period, zone) ==
    LET employeesAtStart == calculateEmployeesAtStart(emps, period, zone)
        employeesLeft == calculateEmployeesLeft(emps, period)
    IN  IF employeesAtStart = 0 THEN 0
        ELSE 100 * ((2 * employeesLeft * 100 + employeesAtStart)
                    \div (2 * employeesAtStart))

\* lines 239-248, in hundredths of a percent
calculateTurnoverPercentage(emps, period, zone) ==
    LET employeesAtStart == calculateEmployeesAtStart(emps, period, zone)
        employeesLeft == calculateEmployeesLeft(emps, period)
    IN  IF employeesAtStart = 0 THEN 0
        ELSE PercentHundredths(employeesLeft, employeesAtStart)

----------------------------------------------------------------------------
(* The groupings and the texts *)

Unknown == <<"U", "n", "k", "n", "o", "w", "n">>
UnknownCompany == Unknown \o <<" ", "C", "o", "m", "p", "a", "n", "y">>
NotAvailable == <<"N", "/", "A">>
Dash == <<"-">>

\* a || b on strings
Or(a, b) == IF Truthy(a) THEN a ELSE b

\* the object a forEach of `counts[key] = (counts[key] || 0) + 1` builds
\* from the keys of the counted employees
Tally(keys) ==
    [key \in {keys[i] : i \in 1..Len(keys)} |->
        Cardinality({i \in 1..Len(keys) : keys[i] = key})]

\* employeesToCount taking the last 80 % of the valid employees
employeesToCountFromEnd(validEmployees, calculation) ==
    IF calculation = "end" THEN validEmployees
    ELSE SubSeq(validEmployees,
                Len(validEmployees)
                    - RoundTenths(Len(validEmployees), AveragePresenceTenths) + 1,
                Len(validEmployees))

\* lines 289-292: all the valid employees, or the first 80 % of them
employeesToCount(validEmployees, calculation) ==
    IF calculation = "end" THEN validEmployees
    ELSE SubSeq(validEmployees, 1,
                RoundTenths(Len(validEmployees), AveragePresenceTenths))

\* lines 279-304
calculateEmployeesByCountry(emps, period, calculation) ==
    LET valid(emp) ==
            /\ Truthy(Get(emp.personal, <<"nir">>))
            /\ Truthy(Get(emp.personal, <<"nomFamille">>))
        counted == employeesToCount(SelectSeq(emps, valid), calculation)
    IN  Tally([i \in 1..Len(counted) |->
                  Or(Get(counted[i].personal, <<"nationalite">>),
                     Or(Get(counted[i].personal, <<"paysDomicile">>), Unknown))])

\* lines 309-335
calculateEmployeesByContractGender(emps, period, calculation) ==
    LET valid(emp) ==
            /\ Truthy(Get(emp.contract, <<"typeContrat">>))
            /\ Truthy(Get(emp.personal, <<"nir">>))
        counted == employeesToCount(SelectSeq(emps, valid), calculation)
    IN  Tally([i \in 1..Len(counted) |->
                  Or(Get(counted[i].contract, <<"typeContrat">>), Unknown)
                  \o Dash
                  \o Or(Get(counted[i].personal, <<"sexe">>),
                        Or(Get(counted[i].contract, <<"sexe">>), Unknown))])

\* lines 340-363
calculateEmployeesByRegion(emps, period, calculation) ==
    LET valid(emp) ==
            /\ Truthy(Get(emp.personal, <<"ville">>))
            /\ Truthy(Get(emp.personal, <<"nir">>))
        counted == employeesToCount(SelectSeq(emps, valid), calculation)
    IN  Tally([i \in 1..Len(counted) |->
                  Or(Get(counted[i].personal, <<"ville">>), Unknown)])

\* lines 368-391
calculateEmployeesByCategory(emps, period, calculation) ==
    LET valid(emp) ==
            /\ Truthy(Get(emp.contract, <<"emploi">>))
            /\ Truthy(Get(emp.personal, <<"nir">>))
        counted == employeesToCount(SelectSeq(emps, valid), calculation)
    IN  Tally([i \in 1..Len(counted) |->
                  Or(Get(counted[i].contract, <<"emploi">>), Unknown)])

\* date-fns format(date, "dd/MM/yyyy") in local time: << [dd, MM, yyyy] >>,
\* or <<>> when it throws RangeError, which it does for an Invalid Date
format(date, zone) ==
    IF ~date.valid THEN <<>>
    ELSE LET day == (date.time + zone) \div HoursPerDay
         IN  << [dd |-> (day % DaysPerMonth) + 1,
                 MM |-> ((day \div DaysPerMonth) % MonthsPerYear) + 1,
                 yyyy |-> day \div (DaysPerMonth * MonthsPerYear)] >>

\* lines 102-104
RECURSIVE getAllEmployeesFrom(_)
getAllEmployeesFrom(establishments) ==
    IF establishments = <<>> THEN <<>>
    ELSE Head(establishments).employees \o getAllEmployeesFrom(Tail(establishments))

getAllEmployees(data) == getAllEmployeesFrom(data.company.establishments)

\* lines 396-411: the text is the record of the values it interpolates;
\* << text >>, or <<>> when a format call throws
generateContextualInfo(data, period, zone) ==
    IF format(period.startDate, zone) = <<>> \/ format(period.endDate, zone) = <<>>
    THEN <<>>
    ELSE << [companyName |-> Or(Get(data.company.companyInfo, <<"companyName">>),
                                UnknownCompany),
             siret |-> Or(Get(data.company.companyInfo, <<"siret">>), NotAvailable),
             parsedAt |-> data.metadata.parsedAt,
             parsingMethod |-> data.metadata.parsingMethod,
             totalEmployees |-> data.metadata.totalEmployees,
             totalEstablishments |-> data.metadata.totalEstablishments,
             periodStart |-> format(period.startDate, zone)[1],
             periodEnd |-> format(period.endDate, zone)[1]] >>

\* lines 416-432
generateFinancialRelationship(data, period, zone) ==
    IF format(period.endDate, zone) = <<>>
    THEN <<>>
    ELSE << [activeAtEnd |->
                 calculateEmployeesEndOfPeriod(getAllEmployees(data), period),
             periodEnd |-> format(period.endDate, zone)[1],
             leftDuring |-> calculateEmployeesLeft(getAllEmployees(data), period),
             averageDuring |->
                 calculateEmployeesAverage(getAllEmployees(data), period)] >>

HeadCount == "Head-count"
AtEndOfPeriod == "At end of period"

\* lines 48-96 of mapDsnToQuestions, the period being resolved: << answers >>,
\* or <<>> when one of the calls throws.  The question ids are written with
\* _ for their -.
mapAnswers(data, emps, period, zone) ==
    IF \/ generateContextualInfo(data, period, zone) = <<>>
       \/ generateFinancialRelationship(data, period, zone) = <<>>
    THEN <<>>
    ELSE << [S1_6_02 |-> calculateEmployeesEndOfPeriod(emps, period),
             S1_6_03 |-> calculateEmployeesAverage(emps, period),
             S1_6_11 |-> calculateEmployeesLeft(emps, period),
             S1_6_12 |-> calculateTurnoverPercentage(emps, period, zone),
             S1_6_05 |-> calculateEmployeesByCountry(emps, period, "end"),
             S1_6_06 |-> calculateEmployeesByCountry(emps, period, "average"),
             K_718 |-> calculateEmployeesByContractGender(emps, period, "end"),
             K_719 |-> calculateEmployeesByContractGender(emps, period, "average"),
             S1_6_09 |-> calculateEmployeesByRegion(emps, period, "end"),
             S1_6_10 |-> calculateEmployeesByRegion(emps, period, "average"),
             S1_6_19 |-> calculateEmployeesByCategory(emps, period, "end"),
             S1_6_20 |-> calculateEmployeesByCategory(emps, period, "average"),
             S1_6_14 |-> HeadCount,
             S1_6_15 |-> AtEndOfPeriod,
             S1_6_16 |-> generateContextualInfo(data, period, zone)[1],
             S1_6_17 |-> generateFinancialRelationship(data, period, zone)[1]] >>

----------------------------------------------------------------------------
(* The employee lists of the model *)

MaxEmployees == 3    \* employees handed to the mapper
MaxMappings == 2     \* calls of mapDsnToQuestions on the same parsed data

Text1 == <<"1">>
Jan2024 == <<"2", "0", "2", "4", "0", "1", "0", "1">>       \* 20240101
Mar2025 == <<"2", "0", "2", "5", "0", "3", "0", "1">>       \* 20250301
Sep2025 == <<"2", "0", "2", "5", "0", "9", "3", "0">>       \* 20250930
Dec2019 == <<"2", "0", "1", "9", "1", "2", "3", "1">>       \* 20191231
NoSuchDay == <<"2", "0", "2", "5", "1", "3", "4", "0">>     \* 20251340
SevenDigits == <<"2", "0", "2", "5", "0", "1", "1">>        \* 2025011
Letters == <<"a", "b", "c", "d", "e", "f", "g", "h">>       \* abcdefgh

\* the object a key and a value make, {} when the value is not there
Field(key, value) == IF value = <<>> THEN EmptyObject ELSE (key :> value)

MakeEmployee(nir, dateDebutContrat, dateFinContrat, debutPeriode, finPeriode, debutSalaire) ==
    [employeeId |-> 1,
     identity |-> Undefined,
     address |-> Undefined,
     personal |-> Field(<<"nir">>, nir) @@ Field(<<"nomFamille">>, nir),
     contract |-> Field(<<"dateDebutContrat">>, dateDebutContrat)
                  @@ Field(<<"dateFinContrat">>, dateFinContrat),
     salary |-> Field(<<"debutPeriode">>, debutSalaire),
     period |-> Field(<<"debutPeriode">>, debutPeriode)
                @@ Field(<<"finPeriode">>, finPeriode)]

\* an employee with more fields in its personal and contract blocks
WithFields(employee, personal, contract) ==
    [employee EXCEPT !.personal = personal @@ @, !.contract = contract @@ @]

EmployeeShapes ==
    {WithFields(MakeEmployee(Text1, Jan2024, <<>>, <<>>, <<>>, <<>>),
                (<<"nationalite">> :> A) @@ (<<"sexe">> :> Text1)
                    @@ (<<"ville">> :> A),
                (<<"typeContrat">> :> Text1) @@ (<<"emploi">> :> A)),
     WithFields(MakeEmployee(Text1, Jan2024, Sep2025, <<>>, <<>>, <<>>),
                (<<"paysDomicile">> :> B),
                (<<"typeContrat">> :> Text1)),
     MakeEmployee(<<>>, <<>>, <<>>, <<>>, <<>>, <<>>),
     MakeEmployee(Text1, Mar2025, Sep2025, <<>>, <<>>, <<>>),
     MakeEmployee(<<>>, Jan2024, Sep2025, <<>>, <<>>, <<>>),
     MakeEmployee(Text1, NoSuchDay, <<>>, <<>>, <<>>, <<>>),
     MakeEmployee(Text1, <<>>, <<>>, <<>>, <<>>, <<>>),
     MakeEmployee(Text1, Jan2024, <<>>, Mar2025, Sep2025, <<>>),
     MakeEmployee(Text1, Jan2024, <<>>, Dec2019, <<>>, <<>>),
     MakeEmployee(Text1, Jan2024, <<>>, NoSuchDay, <<>>, <<>>),
     MakeEmployee(Text1, Jan2024, <<>>, SevenDigits, <<>>, <<>>),
     MakeEmployee(Text1, Jan2024, <<>>, <<>>, Letters, <<>>),
     MakeEmployee(Text1, Jan2024, <<>>, <<>>, <<>>, Mar2025),
     MakeEmployee(Text1, Jan2024, <<>>, Sep2025, NoSuchDay, Mar2025),
     [MakeEmployee(Text1, Jan2024, <<>>, <<>>, <<>>, <<>>) EXCEPT
         !.personal = Field(<<"nir">>, Text1)]}

EmployeeLists == UNION {[1..n -> EmployeeShapes] : n \in 0..MaxEmployees}

\* the parsed data holding a list of employees: in one establishment of a
\* named company (none when there is no employee), or behind an
\* establishment without employees
Layouts == {"single", "afterEmpty"}
EmptyEstablishment == [establishmentInfo |-> EmptyObject, employees |-> <<>>]
MakeCompany(emps, layout) ==
    [companyInfo |->
        IF layout = "single"
        THEN (<<"companyName">> :> A) @@ (<<"siret">> :> Text1)
        ELSE EmptyObject,
     establishments |->
        (IF layout = "single" THEN <<>> ELSE <<EmptyEstablishment>>)
        \o (IF emps = <<>> THEN <<>>
            ELSE <<[establishmentInfo |-> EmptyObject, employees |-> emps]>>)]

ParsedDatas ==
    {BuildResult(MakeCompany(emps, layout), "dsn.txt", 1) :
        emps \in EmployeeLists, layout \in Layouts}
Years == {2025, 2026}
Zones == {-5, 1}

----------------------------------------------------------------------------
(* The mapper as a state machine *)

\* line 46: the reporting period is resolved
GetReportingPeriod ==
    /\ mpc = "period"
    /\ \E period \in getReportingPeriod(employees, currentYear, tz) :
           reportingPeriod' = Some(period)
    /\ mpc' = "answers"
    /\ UNCHANGED <<employees, currentYear, tz, answers, parsedData, firstMapping,
                   parserVars, clientVars, callVars>>

\* lines 48-96: the answers are computed from the employees and the period
MapAnswers ==
    /\ mpc = "answers"
    /\ answers' = mapAnswers(parsedData[1], employees, reportingPeriod[1], tz)
    /\ mpc' = IF answers' = <<>> THEN "threw" ELSE "done"
    /\ UNCHANGED <<employees, currentYear, tz, reportingPeriod, parsedData,
                   firstMapping, parserVars, clientVars, callVars>>

ParserIdle ==
    /\ content = <<>>
    /\ filename \in FileNames
    /\ SetInitialLocals
    /\ pc = "idle"
    /\ backfillRuns = 0
    /\ result = <<>>
    /\ calls = 0
    /\ clock = 1
    /\ firstCall = <<>>

InitMapper ==
    /\ ParserIdle
    /\ ClientIdle
    /\ NoCall
    /\ parsedData \in {Some(data) : data \in ParsedDatas}
    /\ employees = getAllEmployees(parsedData[1])
    /\ firstMapping = <<>>
    /\ currentYear \in Years
    /\ tz \in Zones
    /\ reportingPeriod = <<>>
    /\ answers = <<>>
    /\ mpc = "period"

NextMapper ==
    \/ GetReportingPeriod
    \/ MapAnswers

SpecMapper == InitMapper /\ [][NextMapper]_vars

\* the longer lists of the runs of SpecTurnover: employees whose contract
\* has ended, present or not at the start of the period, and employees whose
\* contract has no end
MaxTurnoverEmployees == 5
TurnoverShapes ==
    {MakeEmployee(Text1, Jan2024, Sep2025, <<>>, <<>>, <<>>),
     MakeEmployee(Text1, Mar2025, Sep2025, <<>>, <<>>, <<>>),
     MakeEmployee(Text1, Jan2024, <<>>, <<>>, <<>>, <<>>)}
TurnoverDatas ==
    {BuildResult(MakeCompany(emps, "single"), "dsn.txt", 1) :
        emps \in UNION {[1..n -> TurnoverShapes] : n \in 0..MaxTurnoverEmployees}}

InitTurnover ==
    /\ ParserIdle
    /\ ClientIdle
    /\ NoCall
    /\ parsedData \in {Some(data) : data \in TurnoverDatas}
    /\ employees = getAllEmployees(parsedData[1])
    /\ firstMapping = <<>>
    /\ currentYear \in Years
    /\ tz \in Zones
    /\ reportingPeriod = <<>>
    /\ answers = <<>>
    /\ mpc = "period"

SpecTurnover == InitTurnover /\ [][NextMapper]_vars

\* calls of mapDsnToQuestions made so far on parsedData
Mappings == IF firstMapping = <<>> THEN 1 ELSE firstMapping[1].others + 2

\* line 44 again: mapDsnToQuestions is called once more with the same
\* argument, at a moment whose calendar year is any of Years
MapAgain ==
    /\ mpc = "done"
    /\ Mappings < MaxMappings
    /\ firstMapping' =
          IF firstMapping = <<>>
          THEN Some([reportingPeriod |-> reportingPeriod[1],
                     answers |-> answers[1],
                     others |-> 0])
          ELSE Some([firstMapping[1] EXCEPT !.others = @ + 1])
    /\ currentYear' \in Years
    /\ reportingPeriod' = <<>>
    /\ answers' = <<>>
    /\ mpc' = "period"
    /\ UNCHANGED <<employees, tz, parsedData, parserVars, clientVars, callVars>>

NextMappings ==
    \/ GetReportingPeriod
    \/ MapAnswers
    \/ MapAgain

SpecMappings == InitMapper /\ [][NextMappings]_vars

----------------------------------------------------------------------------
(* The client: the store, the form and the Word export *)

\* a value of type string | number
Num(n) == [number |-> n]
Str(text) == [string |-> text]

\* object?.key : <<>> is undefined or null, else << value >>
Chain(object, key) ==
    IF object # <<>> /\ key \in DOMAIN object[1] THEN << object[1][key] >> ELSE <<>>

\* parsedDsnData?.declaration?.entreprise?.etablissement?.individus
individus ==
    Chain(Chain(Chain(Chain(parsedDsnData, "declaration"), "entreprise"),
                "etablissement"), "individus")

\* store lines 193-199
getEmployeeCount == IF individus = <<>> THEN 0 ELSE Len(individus[1])

\* store lines 201-221
getEmployeeCountByGender ==
    LET count(sexe) ==
            IF individus = <<>> THEN 0
            ELSE Cardinality({k \in 1..Len(individus[1]) : individus[1][k].sexe = sexe})
    IN  [homme |-> count("01"), femme |-> count("02")]

\* store lines 177-181
setUserAnswer(stored, questionId, value) == Put(stored, questionId, value)

\* store lines 183-186
getUserAnswer(questionId) ==
    IF questionId \in DOMAIN userAnswers THEN Some(userAnswers[questionId])
    ELSE Undefined

\* DsnForm lines 37-56
getCalculatedAnswer(questionId) ==
    IF questionId \in {"S1_6_02", "S1_6_03"} THEN Num(getEmployeeCount)
    ELSE IF questionId = "K_718" THEN Num(getEmployeeCountByGender.homme)
    ELSE IF questionId = "K_719" THEN Num(getEmployeeCountByGender.femme)
    ELSE Str("")

\* getCurrentAnswer testing the override with if (userAnswer)
getCurrentAnswerIfTruthy(questionId) ==
    IF getUserAnswer(questionId) \notin {Undefined, Some(Num(0)), Some(Str(""))}
    THEN getUserAnswer(questionId)[1]
    ELSE getCalculatedAnswer(questionId)

\* DsnForm lines 62-70
getCurrentAnswer(questionId) ==
    IF getUserAnswer(questionId) # Undefined
    THEN getUserAnswer(questionId)[1]
    ELSE getCalculatedAnswer(questionId)

\* WordExport lines 162-185
WordExport_getCalculatedAnswer(questionId) ==
    IF getUserAnswer(questionId) # Undefined
    THEN getUserAnswer(questionId)[1]
    ELSE IF questionId \in {"S1_6_02", "S1_6_03"} THEN Num(getEmployeeCount)
    ELSE IF questionId = "K_718" THEN Num(getEmployeeCountByGender.homme)
    ELSE IF questionId = "K_719" THEN Num(getEmployeeCountByGender.femme)
    ELSE Str("")

\* dsn.service lines 21-51: the responses to the upload of a file, one for
\* each period getReportingPeriod can resolve (size and summary left out)
processDsnFile(raw, fname, now, year, zone) ==
    LET data == parseDsnContent(raw, fname, now)
        emps == getAllEmployees(data)
    IN  {[message |-> "DSN file uploaded, parsed, and mapped successfully",
          filename |-> fname,
          content |-> raw,
          parsedData |-> data,
          mappedAnswers |-> mapAnswers(data, emps, period, zone)[1]] :
            period \in {p \in getReportingPeriod(emps, year, zone) :
                           mapAnswers(data, emps, p, zone) # <<>>}}

\* the lines of an employee with a nir, a name and a contract start date
ContractStartLine == DataLine(<<"S21", "G00", "40", "010">>, Jan2024)
CompleteEmployeeLines ==
    <<Marker, PersonalDataLineA, NameDataLine, ContractHeader, ContractStartLine>>

UploadFiles ==
    {<<>>, CompleteEmployeeLines, CompleteEmployeeLines \o CompleteEmployeeLines}

\* data of the store's declared type ProcessedDsnData (store lines 93-102)
DeclaredDatas ==
    {[declaration |->
         [entreprise |->
             [etablissement |->
                 [individus |-> <<[sexe |-> "01"], [sexe |-> "02"], [sexe |-> "01"]>>]]]],
     [declaration |-> [entreprise |-> [siren |-> "1"]]]}

ClientQuestions == {"S1_6_02", "K_718", "S1_6_14"}
UserValues == {Num(0), Num(2), Str(""), Str("x")}

\* DsnFileUpload lines 95-117: the file is posted and the response is stored
Upload ==
    /\ \E raw \in UploadFiles, year \in Years, zone \in Zones :
         \E response \in processDsnFile(raw, "dsn.txt", 1, year, zone) :
            parsedDsnData' = Some(response)
    /\ UNCHANGED <<userAnswers, overridden, parserVars, mapperVars, callVars>>

\* store lines 152-154
SetParsedDsnData ==
    /\ \E data \in DeclaredDatas : parsedDsnData' = Some(data)
    /\ UNCHANGED <<userAnswers, overridden, parserVars, mapperVars, callVars>>

\* DsnForm lines 58-60: the user gives an answer
SetUserAnswer ==
    /\ \E questionId \in ClientQuestions, value \in UserValues :
          /\ userAnswers' = setUserAnswer(userAnswers, questionId, value)
          /\ overridden' = Put(overridden, questionId, value)
    /\ UNCHANGED <<parsedDsnData, parserVars, mapperVars, callVars>>

\* store lines 188-190
ClearUserAnswers ==
    /\ userAnswers' = EmptyObject
    /\ overridden' = EmptyObject
    /\ UNCHANGED <<parsedDsnData, parserVars, mapperVars, callVars>>

\* store lines 166-174
Reset ==
    /\ parsedDsnData' = <<>>
    /\ userAnswers' = EmptyObject
    /\ overridden' = EmptyObject
    /\ UNCHANGED <<parserVars, mapperVars, callVars>>

InitClient ==
    /\ ParserIdle
    /\ MapperIdle
    /\ ClientIdle
    /\ NoCall

NextClient ==
    \/ Upload
    \/ SetParsedDsnData
    \/ SetUserAnswer
    \/ ClearUserAnswers
    \/ Reset

SpecClient == InitClient /\ [][NextClient]_vars

----------------------------------------------------------------------------
(* The field mappers, called on their own *)

MaxFieldCalls == 2   \* calls of the field mappers in a run of SpecFields

FieldMappers ==
    {"handleCompanyData", "handleEstablishmentData", "handleIdentityData",
     "handleAddressData", "handlePersonalData", "handleContractData",
     "handleSalaryData", "handlePeriodData"}

\* the codes each mapper is called with: one of its table, one of the
\* table of the contract mapper, and one of no table
FieldCodes ==
    [handleCompanyData |-> <<"S10", "G00", "01", "001">>,
     handleEstablishmentData |-> <<"S20", "G00", "05", "004">>,
     handleIdentityData |-> <<"S21", "G00", "06", "001">>,
     handleAddressData |-> <<"S21", "G00", "11", "001">>,
     handlePersonalData |-> <<"S21", "G00", "30", "001">>,
     handleContractData |-> <<"S21", "G00", "40", "010">>,
     handleSalaryData |-> <<"S21", "G00", "50", "001">>,
     handlePeriodData |-> <<"S21", "G00", "51", "001">>]
FieldCodesOf(mapper) ==
    {FieldCodes[mapper], <<"S21", "G00", "40", "003">>, <<"S21", "G00", "30", "999">>}
FieldValues == {A, B}

\* the objects the mappers are given, one for each mapper, as constructed
\* by lines 104-107, 166-169 and 191-208
NewObjects ==
    [handleCompanyData |-> [companyInfo |-> EmptyObject, establishments |-> <<>>],
     handleEstablishmentData |-> [establishmentInfo |-> EmptyObject, employees |-> <<>>],
     handleIdentityData |-> EmptyObject,
     handleAddressData |-> EmptyObject,
     handlePersonalData |-> EmptyObject,
     handleContractData |-> EmptyObject,
     handleSalaryData |-> EmptyObject,
     handlePeriodData |-> EmptyObject]

\* the objects once mapper(objects[mapper], code, value) has returned
applyMapper(mapper, objects, code, value) ==
    CASE mapper = "handleCompanyData" ->
            [objects EXCEPT !.handleCompanyData = handleCompanyData(@, code, value)]
      [] mapper = "handleEstablishmentData" ->
            [objects EXCEPT
                !.handleEstablishmentData = handleEstablishmentData(@, code, value)]
      [] mapper = "handleIdentityData" ->
            [objects EXCEPT !.handleIdentityData = handleIdentityData(@, code, value)]
      [] mapper = "handleAddressData" ->
            [objects EXCEPT !.handleAddressData = handleAddressData(@, code, value)]
      [] mapper = "handlePersonalData" ->
            [objects EXCEPT !.handlePersonalData = handlePersonalData(@, code, value)]
      [] mapper = "handleContractData" ->
            [objects EXCEPT !.handleContractData = handleContractData(@, code, value)]
      [] mapper = "handleSalaryData" ->
            [objects EXCEPT !.handleSalaryData = handleSalaryData(@, code, value)]
      [] mapper = "handlePeriodData" ->
            [objects EXCEPT !.handlePeriodData = handlePeriodData(@, code, value)]

FieldCallsOn(objects, n) ==
    UNION {{Some([mapper |-> mapper, objects |-> objects, code |-> code,
                  value |-> value, n |-> n]) :
               code \in FieldCodesOf(mapper), value \in FieldValues} :
           mapper \in FieldMappers}

\* the mapper that was called assigns the field and returns
HandleField ==
    /\ args # <<>>
    /\ returned = <<>>
    /\ returned' = Some(applyMapper(args[1].mapper, args[1].objects,
                                    args[1].code, args[1].value))
    /\ UNCHANGED <<args, parserVars, mapperVars, clientVars>>

\* a mapper is called on the objects the call before has left
CallField ==
    /\ returned # <<>>
    /\ args[1].n < MaxFieldCalls
    /\ args' \in FieldCallsOn(returned[1], args[1].n + 1)
    /\ returned' = <<>>
    /\ UNCHANGED <<parserVars, mapperVars, clientVars>>

InitFields ==
    /\ ParserIdle
    /\ MapperIdle
    /\ ClientIdle
    /\ args \in FieldCallsOn(NewObjects, 1)
    /\ returned = <<>>

NextFields ==
    \/ HandleField
    \/ CallField

SpecFields == InitFields /\ [][NextFields]_vars

----------------------------------------------------------------------------
(* parseDsnDate, called on its own *)

\* the values parseDsnDate is given: a year part, a month part and a day
\* part, each well-formed, out of range, not a number, short or missing
YearParts == {<<"2", "0", "2", "5">>, <<"2", "0", "a", "5">>, <<"2", "0", "2">>, <<>>}
MonthParts == {<<"0", "1">>, <<"0", "2">>, <<"1", "3">>, <<"0", "x">>}
DayParts == {<<"0", "1">>, <<"3", "0">>, <<"4", "0">>, <<"x", "1">>, <<"1">>, <<>>}
DateTexts ==
    {year \o month \o day : year \in YearParts, month \in MonthParts, day \in DayParts}

\* lines 27-39: parseDsnDate returns
ParseDsnDate ==
    /\ args # <<>>
    /\ returned = <<>>
    /\ returned' = Some(parseDsnDate(args[1].dsnDate, args[1].zone))
    /\ UNCHANGED <<args, parserVars, mapperVars, clientVars>>

InitDates ==
    /\ ParserIdle
    /\ MapperIdle
    /\ ClientIdle
    /\ args \in {Some([dsnDate |-> text, zone |-> zone]) :
                    text \in DateTexts, zone \in Zones}
    /\ returned = <<>>

NextDates == ParseDsnDate

SpecDates == InitDates /\ [][NextDates]_vars

----------------------------------------------------------------------------
(* Vocabulary of the properties *)

Done == pc = "done"
Parsed == result[1]

\* the positions of the employees of a company tree
EmployeeRefs(comp) ==
    UNION {{[est |-> e, emp |-> m] : m \in 1..Len(comp.establishments[e].employees)} :
           e \in 1..Len(comp.establishments)}
EmployeeAt(comp, ref) == comp.establishments[ref.est].employees[ref.emp]

HasContainer(employee) ==
    employee.identity # Undefined \/ employee.address # Undefined
HasFields(container) == container # Undefined /\ DOMAIN container[1] # {}

\* a raw line that has the DSN line format, and what it reads as
IsDsnLine(line) == DSN_LINE_REGEX(trim(line)) # <<>>
IsHeaderOf(line, code) ==
    IsDsnLine(line) /\ line.code = code /\ trimEnd(line.tail) = <<",", Quote, Quote>>
IsDataOfBlock(line, block) ==
    IsDsnLine(line) /\ line.code[1] = block /\ trimEnd(line.tail) # <<",", Quote, Quote>>
IsHeaderOfBlock(line, block) ==
    IsDsnLine(line) /\ line.code[1] = block /\ trimEnd(line.tail) = <<",", Quote, Quote>>
Last(seq) == seq[Len(seq)]

----------------------------------------------------------------------------
(* C1 *)

\* C1: when parseDsnContent has returned, metadata.totalEmployees is the
\* number of employees of the returned company, all establishments together,
\* and metadata.totalEstablishments is the number of its establishments.
C1_MetadataCounts ==
    Done =>
        /\ Parsed.metadata.totalEmployees = Cardinality(EmployeeRefs(Parsed.company))
        /\ Parsed.metadata.totalEstablishments = Len(Parsed.company.establishments)

C1_Witness ==
    /\ Done
    /\ Len(Parsed.company.establishments) >= 2
    /\ \A e \in 1..2 : Len(Parsed.company.establishments[e].employees) >= 1
    /\ Parsed.metadata.totalEmployees >= 2

----------------------------------------------------------------------------
(* C2 *)

EmployeesBefore(comp, e) == Cardinality({r \in EmployeeRefs(comp) : r.est < e})

\* C2 as stated: in every establishment of the result the employee ids, in
\* list order, are 1, 2, ..., N.
C2_IdsRestartInEveryEstablishment ==
    Done =>
        \A r \in EmployeeRefs(Parsed.company) :
            EmployeeAt(Parsed.company, r).employeeId = r.emp

\* C2 as amended: in every establishment of the result the employee ids, in
\* list order, are consecutive integers that go on from the last id of the
\* establishments before it: the id at position m is m plus the number of
\* employees of the earlier establishments (so 1..N in the first
\* establishment that has employees).
C2_IdsConsecutiveAcrossEstablishments ==
    Done =>
        \A r \in EmployeeRefs(Parsed.company) :
            EmployeeAt(Parsed.company, r).employeeId =
                EmployeesBefore(Parsed.company, r.est) + r.emp

C2_Witness ==
    /\ Done
    /\ \E r \in EmployeeRefs(Parsed.company) :
           /\ r.est >= 2
           /\ EmployeesBefore(Parsed.company, r.est) >= 1
           /\ EmployeeAt(Parsed.company, r).employeeId = 2

----------------------------------------------------------------------------
(* C3 *)

LaterEmployeesBare(comp) ==
    \A r \in EmployeeRefs(comp) :
        EmployeeAt(comp, r).employeeId >= 2 =>
            /\ ~HasFields(EmployeeAt(comp, r).identity)
            /\ ~HasFields(EmployeeAt(comp, r).address)

\* an S21 data line is read inside an identity or address block while the
\* current employee is a later one
LaterEmployeeInIdentityRegion ==
    /\ pc = "walk"
    /\ inIdentityBlock \/ inAddressBlock
    /\ currentEmployee # NullRef
    /\ EmployeeAt(company, currentEmployee).employeeId >= 2

\* C3: no employee with employeeId >= 2 ever holds a field in an identity or
\* address block, and an S21 data line read under an S21.G00.06 / S21.G00.11
\* header while such an employee is current changes nothing of the company
\* tree: it is dropped.
C3_LaterEmployeesNeverCarryIdentity ==
    [][/\ LaterEmployeesBare(company')
       /\ (/\ LaterEmployeeInIdentityRegion
           /\ Len(content') = Len(content) + 1
           /\ IsDataOfBlock(Last(content'), "S21"))
          => company' = company]_vars

C3_Witness ==
    /\ LaterEmployeeInIdentityRegion
    /\ inIdentityBlock
    /\ Len(content) >= 4
    /\ Last(content) = IdentityDataLine
    /\ content[Len(content) - 1] = IdentityHeader

----------------------------------------------------------------------------
(* C4 *)

ContainerRefs(comp) == {r \in EmployeeRefs(comp) : HasContainer(EmployeeAt(comp, r))}

\* C4 as stated: an employee that carries an identity or address container
\* is employee 0 of establishment 0, and at most one employee carries one.
C4_ContainersOnlyInFirstEstablishment ==
    Done =>
        /\ \A r \in ContainerRefs(Parsed.company) : r.est = 1 /\ r.emp = 1
        /\ Cardinality(ContainerRefs(Parsed.company)) <= 1

\* C4 as amended: an employee that carries an identity or address container
\* is the first employee created by the parse (employeeId 1), it is employee
\* 0 of its establishment and every establishment before that one has no
\* employee; at most one employee of the result carries such containers.
C4_ContainersOnlyOnFirstEmployee ==
    Done =>
        /\ \A r \in ContainerRefs(Parsed.company) :
              /\ r.emp = 1
              /\ EmployeeAt(Parsed.company, r).employeeId = 1
              /\ EmployeesBefore(Parsed.company, r.est) = 0
        /\ Cardinality(ContainerRefs(Parsed.company)) <= 1

C4_Witness ==
    /\ Done
    /\ \E r \in ContainerRefs(Parsed.company) : r.est = 2
    /\ Cardinality(EmployeeRefs(Parsed.company)) >= 2

----------------------------------------------------------------------------
(* C5 *)

ValueOf(line) == SubSeq(trimEnd(line.tail), 3, Len(trimEnd(line.tail)) - 1)

\* what the S21 data lines that stand under an S21.G00.06 or S21.G00.11
\* header, before the first employee-start marker, hold: the part of the
\* file a forward pass reads while there is no employee yet
RECURSIVE LeadingBlocks(_, _, _)
LeadingBlocks(ls, region, acc) ==
    IF ls = <<>> THEN acc
    ELSE LET line == Head(ls)
         IN  IF ~IsDsnLine(line) THEN LeadingBlocks(Tail(ls), region, acc)
             ELSE IF IsHeaderOf(line, MarkerCode) THEN acc
             ELSE IF ValueOf(line) = <<>>
             THEN LeadingBlocks(Tail(ls), BlockFlagOf(line.code), acc)
             ELSE IF line.code[1] = "S21" /\ region = "identity"
             THEN LeadingBlocks(Tail(ls), region,
                      [acc EXCEPT !.identity =
                          Put(@, FieldName(identityMapping, line.code), ValueOf(line))])
             ELSE IF line.code[1] = "S21" /\ region = "address"
             THEN LeadingBlocks(Tail(ls), region,
                      [acc EXCEPT !.address =
                          Put(@, FieldName(addressMapping, line.code), ValueOf(line))])
             ELSE LeadingBlocks(Tail(ls), region, acc)

Leading(raw) ==
    LeadingBlocks(raw, "none", [identity |-> EmptyObject, address |-> EmptyObject])

HasMarker(raw) == \E k \in 1..Len(raw) : IsHeaderOf(raw[k], MarkerCode)

FirstCreated(comp) ==
    EmployeeAt(comp, CHOOSE r \in EmployeeRefs(comp) :
                         EmployeeAt(comp, r).employeeId = 1)

\* the lines before the first employee-start marker are all S21.G00.06 and
\* S21.G00.11 lines
RECURSIVE OnlyIdentityAddressLead(_)
OnlyIdentityAddressLead(ls) ==
    IF ls = <<>> THEN TRUE
    ELSE IF IsHeaderOf(Head(ls), MarkerCode) THEN TRUE
    ELSE /\ IsDsnLine(Head(ls))
         /\ BlockFlagOf(Head(ls).code) \in {"identity", "address"}
         /\ OnlyIdentityAddressLead(Tail(ls))

\* C5: when S21.G00.06 / S21.G00.11 header and data lines (and nothing else)
\* stand before the first employee-start marker of the file, the identity
\* and address blocks of the first employee of the result hold exactly the
\* values of those data lines, under the names of the identity and address
\* tables.
C5_BackfillRecoversLeadingBlocks ==
    (/\ Done
     /\ HasMarker(content)
     /\ OnlyIdentityAddressLead(content)
     /\ Leading(content) # [identity |-> EmptyObject, address |-> EmptyObject])
    => /\ FirstCreated(Parsed.company).identity = Some(Leading(content).identity)
       /\ FirstCreated(Parsed.company).address = Some(Leading(content).address)

----------------------------------------------------------------------------
(* C6 *)

NirOfLine(line) == IF line = PersonalDataLineA THEN A ELSE B

\* the file is made of employee-start markers, each followed by its
\* S21.G00.30.001 data line
MarkersWithNir(raw) ==
    /\ Len(raw) >= 2
    /\ Len(raw) % 2 = 0
    /\ \A k \in 1..Len(raw) :
          IF k % 2 = 1 THEN raw[k] = Marker
          ELSE raw[k] \in {PersonalDataLineA, PersonalDataLineB}

\* C6: an S21 line met while no establishment is open creates one
\* establishment, and one only as long as no S20 line is read; and a file
\* made only of employee-start markers, each followed by its S21.G00.30.001
\* line, yields one establishment with one employee per marker, ids 1, 2,
\* ... in file order, each personal block holding exactly the nir of its own
\* line, and no identity or address field anywhere.
C6_EstablishmentAutoCreated ==
    /\ (/\ \E k \in 1..Len(content) : IsDsnLine(content[k]) /\ content[k].code[1] = "S21"
        /\ \A k \in 1..Len(content) : ~(IsDsnLine(content[k]) /\ content[k].code[1] = "S20"))
       => Len(company.establishments) = 1
    /\ (Done /\ MarkersWithNir(content))
       => /\ Len(Parsed.company.establishments) = 1
          /\ Parsed.company.establishments[1].establishmentInfo = EmptyObject
          /\ Len(Parsed.company.establishments[1].employees) = Len(content) \div 2
          /\ \A m \in 1..(Len(content) \div 2) :
                LET employee == Parsed.company.establishments[1].employees[m]
                IN  /\ employee.employeeId = m
                    /\ DOMAIN employee.personal = {<<"nir">>}
                    /\ employee.personal[<<"nir">>] = NirOfLine(content[2 * m])
                    /\ ~HasFields(employee.identity)
                    /\ ~HasFields(employee.address)

C6_Witness ==
    /\ Done
    /\ content = <<Marker, PersonalDataLineA, Marker, PersonalDataLineB>>
    /\ Len(Parsed.company.establishments) = 1
    /\ Len(Parsed.company.establishments[1].employees) = 2
    /\ Parsed.company.establishments[1].employees[2].personal[<<"nir">>] = B

----------------------------------------------------------------------------
(* C7 *)

\* the file without its blank lines and without the lines that do not have
\* the DSN line format
WithoutBadLines(raw) == SelectSeq(raw, IsDsnLine)

\* C7: a blank line and a line that does not have the DSN line format change
\* no parse state: during the walk the locals are those of the walk over the
\* file with these lines removed, and the result is the result for the file
\* with these lines removed (so every other line is processed).
C7_BadLinesChangeNothing ==
    /\ pc = "walk" => Locals = WalkLines(InitialLocals, WithoutBadLines(content))
    /\ Done => Parsed = parseDsnContent(WithoutBadLines(content), filename, clock)

C7_Witness ==
    /\ Done
    /\ content = <<Marker, UnquotedLine, BlankLine, PersonalDataLineA>>
    /\ Parsed.company.establishments[1].employees[1].personal[<<"nir">>] = A
    /\ Parsed.metadata.totalEmployees = 1

----------------------------------------------------------------------------
(* C8 *)

WithoutParsedAt(metadata) ==
    [totalEmployees |-> metadata.totalEmployees,
     totalEstablishments |-> metadata.totalEstablishments,
     filename |-> metadata.filename,
     parsingMethod |-> metadata.parsingMethod]

SameAsFirstCall ==
    /\ Done
    /\ calls >= 2
    /\ content = firstCall[1].content
    /\ filename = firstCall[1].filename

\* C8: a later call of parseDsnContent with the content and the filename of
\* the first call returns the company tree of the first call and its
\* metadata, parsedAt apart, whatever was parsed in between.
C8_SameFileSameResult ==
    SameAsFirstCall =>
        /\ Parsed.company = firstCall[1].result.company
        /\ WithoutParsedAt(Parsed.metadata) = WithoutParsedAt(firstCall[1].result.metadata)

C8_Witness ==
    /\ SameAsFirstCall
    /\ calls = 3
    /\ firstCall[1].others = 1
    /\ content = <<IdentityHeader, Marker, PersonalDataLineA>>
    /\ Parsed.metadata.totalEmployees = 1
    /\ Parsed.metadata.parsedAt # firstCall[1].result.metadata.parsedAt

----------------------------------------------------------------------------
(* C9 *)

MapperPeriodResolved == mpc \in {"answers", "done"} /\ reportingPeriod # <<>>

\* a value that is a date of the calendar written YYYYMMDD
IsDateText(value) ==
    /\ Len(value) = 8
    /\ IsDigits(value)
    /\ NumberOf(SubSeq(value, 5, 6)) \in 1..12
    /\ NumberOf(SubSeq(value, 7, 8)) \in
          1..DaysInMonth(NumberOf(SubSeq(value, 1, 4)), NumberOf(SubSeq(value, 5, 6)))

NoParseableDate(emps) ==
    \A k \in 1..Len(emps) :
        /\ ~IsDateText(Get(emps[k].period, <<"debutPeriode">>))
        /\ ~IsDateText(Get(emps[k].period, <<"finPeriode">>))
        /\ ~IsDateText(Get(emps[k].salary, <<"debutPeriode">>))

FallbackWindow ==
    [startDate |-> UTCDate(2025, 1, 1), endDate |-> UTCDate(2025, 12, 31)]

\* C9: when no period start, period end or salary period start of any
\* employee is a valid YYYYMMDD date, getReportingPeriod returns the window
\* 2025-01-01 to 2025-12-31, whatever the current year and whatever the
\* unparseable values are.
C9_FallbackWindowIsFixed ==
    (MapperPeriodResolved /\ NoParseableDate(employees))
        => reportingPeriod = Some(FallbackWindow)

----------------------------------------------------------------------------
(* C10 *)

MapperDone == mpc = "done" /\ answers # <<>>

Abs(n) == IF n < 0 THEN -n ELSE n

\* C10: the turnover percentage S1-6_12 is never negative, is 0 when nobody
\* is counted at the start of the period, and is otherwise the hundredth of
\* a percent nearest to employeesLeft / employeesAtStart * 100.
C10_TurnoverPercentage ==
    MapperDone =>
        LET atStart == calculateEmployeesAtStart(employees, reportingPeriod[1], tz)
            left == answers[1].S1_6_11
            turnover == answers[1].S1_6_12
        IN  /\ turnover >= 0
            /\ atStart = 0 => turnover = 0
            /\ atStart > 0 =>
                  2 * Abs(turnover * atStart - left * 10000) <= atStart

\* one of three employees present at the start has left: 33.33 %
C10_Witness ==
    /\ MapperDone
    /\ calculateEmployeesAtStart(employees, reportingPeriod[1], tz) = 3
    /\ answers[1].S1_6_11 = 1
    /\ answers[1].S1_6_12 = 3333

----------------------------------------------------------------------------
(* C11 *)

QuestionIds ==
    {"S1_6_02", "S1_6_03", "S1_6_05", "S1_6_06", "S1_6_09", "S1_6_10",
     "S1_6_11", "S1_6_12", "S1_6_14", "S1_6_15", "S1_6_16", "S1_6_17",
     "S1_6_19", "S1_6_20", "K_718", "K_719"}

\* C11: mapDsnToQuestions never throws, and the map it returns has an answer
\* for each of the 16 question ids and for nothing else, whatever the parsed
\* data: no establishment, establishments without employee, employees with
\* empty blocks or with dates that cannot be parsed.
C11_MapperTotal ==
    /\ mpc # "threw"
    /\ MapperDone => DOMAIN answers[1] = QuestionIds

\* the answers of a company whose first establishment is empty and whose
\* employees are one with empty blocks and one with a period date of no day
C11_Witness ==
    /\ MapperDone
    /\ parsedData[1].company.establishments[1].employees = <<>>
    /\ \E k \in 1..Len(employees) :
           Get(employees[k].period, <<"debutPeriode">>) = NoSuchDay
    /\ \E k \in 1..Len(employees) :
           /\ employees[k].personal = EmptyObject
           /\ employees[k].contract = EmptyObject

----------------------------------------------------------------------------
(* C12 *)

\* every date the employees carry in a period or salary field is a date of
\* the calendar, so that the order of the sort is defined
AllCollectedDatesValid(emps) ==
    \A k \in 1..Len(allDatesOf(emps, tz)) : allDatesOf(emps, tz)[k].valid

\* C12: a call of mapDsnToQuestions returns the reporting period and the
\* answers that the first call on the same parsed data returned, whatever the
\* calendar year of each call.
C12_SameDataSameAnswers ==
    (MapperDone /\ firstMapping # <<>> /\ AllCollectedDatesValid(employees))
        => /\ reportingPeriod[1] = firstMapping[1].reportingPeriod
           /\ answers[1] = firstMapping[1].answers

----------------------------------------------------------------------------
(* C13 *)

DateFields ==
    {<<"dateDebutContrat">>, <<"dateFinContrat">>, <<"debutPeriode">>,
     <<"finPeriode">>}

NoDateField(emps) ==
    \A k \in 1..Len(emps) :
        /\ DOMAIN emps[k].contract \cap DateFields = {}
        /\ DOMAIN emps[k].period \cap DateFields = {}
        /\ DOMAIN emps[k].salary \cap DateFields = {}

\* C13: when no employee carries any date field, mapDsnToQuestions returns,
\* without throwing, S1-6_02 = 0, S1-6_03 = 0 and S1-6_12 = 0; and whatever
\* the input S1-6_14 is "Head-count" and S1-6_15 is "At end of period".
C13_NoDatesZeroHeadcount ==
    /\ (mpc \in {"done", "threw"} /\ NoDateField(employees)) =>
          /\ mpc = "done"
          /\ answers[1].S1_6_02 = 0
          /\ answers[1].S1_6_03 = 0
          /\ answers[1].S1_6_12 = 0
    /\ MapperDone =>
          /\ answers[1].S1_6_14 = "Head-count"
          /\ answers[1].S1_6_15 = "At end of period"

\* the answers for employees that have a nir and a name but no date at all
C13_Witness ==
    /\ MapperDone
    /\ Len(employees) >= 2
    /\ NoDateField(employees)
    /\ \E k \in 1..Len(employees) : Truthy(Get(employees[k].personal, <<"nir">>))

----------------------------------------------------------------------------
(* C14 *)

\* the form and the export are rendered (DsnForm line 22, WordExport line 145)
Rendered == parsedDsnData # <<>>

\* C14: while the form and the export are shown, a question whose answer the
\* user has set since the last reset or clearUserAnswers shows the value last
\* set, 0 and the empty string included, in the form and in the Word export,
\* whatever the stored DSN data and the other overrides; a question without
\* override shows its calculated value.
C14_OverrideTakesPrecedence ==
    Rendered =>
        \A questionId \in ClientQuestions :
            /\ questionId \in DOMAIN overridden =>
                  /\ getCurrentAnswer(questionId) = overridden[questionId]
                  /\ WordExport_getCalculatedAnswer(questionId) = overridden[questionId]
            /\ questionId \notin DOMAIN overridden =>
                  /\ getCurrentAnswer(questionId) = getCalculatedAnswer(questionId)
                  /\ WordExport_getCalculatedAnswer(questionId)
                        = getCalculatedAnswer(questionId)

\* three individuals are stored, the user has answered 0 to S1-6_02 and the
\* empty string to S1-6_14, and has not answered K_718
C14_Witness ==
    /\ Rendered
    /\ getEmployeeCount = 3
    /\ DOMAIN overridden = {"S1_6_02", "S1_6_14"}
    /\ overridden["S1_6_02"] = Num(0)
    /\ overridden["S1_6_14"] = Str("")
    /\ getCurrentAnswer("S1_6_02") = Num(0)
    /\ getCurrentAnswer("K_718") = Num(2)

----------------------------------------------------------------------------
(* C15 *)

\* the stored data is the response of the server to an upload
Uploaded == parsedDsnData # <<>> /\ "mappedAnswers" \in DOMAIN parsedDsnData[1]

\* C15: after an upload, a question the user has not answered shows in the
\* form the value the server computed for it (S1-6_02 is
\* mappedAnswers["S1-6_02"]), and the employee count shown is
\* parsedData.metadata.totalEmployees.
C15_FormShowsServerAnswers ==
    Uploaded =>
        /\ "S1_6_02" \notin DOMAIN userAnswers =>
              getCurrentAnswer("S1_6_02") = Num(parsedDsnData[1].mappedAnswers.S1_6_02)
        /\ getEmployeeCount = parsedDsnData[1].parsedData.metadata.totalEmployees

----------------------------------------------------------------------------
(* C16 *)

FlagsSet ==
    {flag \in {"identity", "address", "personal", "contract", "salary", "period"} :
        \/ flag = "identity" /\ inIdentityBlock
        \/ flag = "address" /\ inAddressBlock
        \/ flag = "personal" /\ inPersonalBlock
        \/ flag = "contract" /\ inContractBlock
        \/ flag = "salary" /\ inSalaryBlock
        \/ flag = "period" /\ inPeriodBlock}

\* the flag of each block of an employee, by the code of its header
OwnFlag ==
    (IdentityCode :> "identity") @@ (AddressCode :> "address") @@
    (MarkerCode :> "personal") @@ (<<"S21", "G00", "40">> :> "contract") @@
    (<<"S21", "G00", "50">> :> "salary") @@ (<<"S21", "G00", "51">> :> "period")

\* the employees of a company tree, establishment after establishment
AllEmployees(comp) ==
    [r \in EmployeeRefs(comp) |-> EmployeeAt(comp, r)]

----------------------------------------------------------------------------
(* C17 *)

\* the positions of the S20 header tokens of a file
EstablishmentHeaders(raw) ==
    {k \in 1..Len(raw) : IsHeaderOfBlock(raw[k], "S20")}

\* a line that opens an establishment when none is open: an S20 data line
\* or an S21 line, before every S20 header
HasFallbackLine(raw) ==
    \E k \in 1..Len(raw) :
        /\ IsDataOfBlock(raw[k], "S20") \/ (IsDsnLine(raw[k]) /\ raw[k].code[1] = "S21")
        /\ \A h \in EstablishmentHeaders(raw) : k < h

\* C17: the company has one establishment for each S20 header token read,
\* and one more when an S20 data line or an S21 line came before the first
\* S20 header; a step adds an establishment, empty, only for such a line.
C17_EstablishmentPerHeader ==
    /\ Len(company.establishments)
          = Cardinality(EstablishmentHeaders(content))
            + (IF HasFallbackLine(content) THEN 1 ELSE 0)
    /\ Done => Len(Parsed.company.establishments) = Len(company.establishments)

\* an employee line, then two S20 headers in a row: three establishments
C17_Witness ==
    /\ Done
    /\ content = <<Marker, EstablishmentHeader, EstablishmentHeader>>
    /\ Len(Parsed.company.establishments) = 3
    /\ Parsed.company.establishments[3] = EmptyEstablishment

----------------------------------------------------------------------------
(* C18 *)

\* an employee-start marker token: code S21.G00.30 exactly, empty value
IsMarkerToken(line) ==
    IsDsnLine(line) /\ line.code = MarkerCode /\ ValueOf(line) = <<>>

\* the number of marker tokens of a file
MarkerTokens(raw) == Cardinality({k \in 1..Len(raw) : IsMarkerToken(raw[k])})

\* the employee lists of the establishments, and <<>> past the last one
EmployeesOf(comp, e) ==
    IF e <= Len(comp.establishments) THEN comp.establishments[e].employees ELSE <<>>

\* the ids of the employees of a company tree, with their places
EmployeeIds(comp) ==
    {<<e, k, comp.establishments[e].employees[k].employeeId>> :
        <<e, k>> \in {<<e1, k1>> \in (1..Len(comp.establishments)) \X (1..MaxLines) :
                         k1 <= Len(comp.establishments[e1].employees)}}

\* as many employees as markers, with the ids 1..n, each given once
NumberedByMarkers(comp, raw) ==
    /\ Cardinality(EmployeeIds(comp)) = MarkerTokens(raw)
    /\ {id[3] : id \in EmployeeIds(comp)} = 1..MarkerTokens(raw)

\* C18: the step that reads the k-th employee-start marker appends one
\* employee to the current establishment (the last one), with employeeId k
\* and empty personal, contract, salary and period blocks, and leaves the
\* other lists as they are; a step that reads any other line keeps the
\* length of every list; so the employees are as many as the markers and
\* carry the ids 1..n, each once, also in the result.
C18_MarkerCreatesEmployee ==
    /\ [](/\ NumberedByMarkers(company, content)
          /\ Done => NumberedByMarkers(Parsed.company, content))
    /\ [][content' # content =>
            LET line == Last(content')
                cur == currentEstablishment'
            IN  IF IsMarkerToken(line)
                THEN /\ cur = Len(company'.establishments)
                     /\ \E employee \in {Last(EmployeesOf(company', cur))} :
                           /\ EmployeesOf(company', cur)
                                 = Append(EmployeesOf(company, cur), employee)
                           /\ employee.employeeId = MarkerTokens(content')
                           /\ employee.personal = EmptyObject
                           /\ employee.contract = EmptyObject
                           /\ employee.salary = EmptyObject
                           /\ employee.period = EmptyObject
                     /\ \A e \in 1..Len(company'.establishments) :
                           e # cur => EmployeesOf(company', e) = EmployeesOf(company, e)
                ELSE \A e \in 1..Len(company'.establishments) :
                        Len(EmployeesOf(company', e)) = Len(EmployeesOf(company, e))
       ]_vars

\* two markers in one establishment, a third in the next: ids 1, 2, 3
C18_Witness ==
    /\ Done
    /\ content = <<Marker, Marker, EstablishmentHeader, Marker>>
    /\ Len(Parsed.company.establishments[1].employees) = 2
    /\ Parsed.company.establishments[1].employees[2].employeeId = 2
    /\ Parsed.company.establishments[2].employees[1].employeeId = 3

----------------------------------------------------------------------------
(* C19 *)

\* the company tree at the end of the for loop, before the backfill test
AfterWalk(raw) == WalkLines(InitialLocals, FilterLines(raw)).company

\* the first employee created by the parse has an identity container, and
\* the walk has left it empty
FirstEmployeeIdentityEmpty(raw) ==
    /\ HasMarker(raw)
    /\ FirstCreated(AfterWalk(raw)).identity = Some(EmptyObject)

\* C19: once the file is read, the backfill pass has run once when the first
\* employee created by the parse has an identity container that the walk
\* left empty, whatever follows that employee in the file, and has not run
\* otherwise.
C19_BackfillWhenFirstEmployeeEmpty ==
    Done => backfillRuns = (IF FirstEmployeeIdentityEmpty(content) THEN 1 ELSE 0)

----------------------------------------------------------------------------
(* C20 *)

BlockNames == {"identity", "address", "personal", "contract", "salary", "period"}

\* the record of a block of an employee, {} for a container that is not set
BlockOf(employee, block) ==
    CASE block = "identity" ->
            IF employee.identity = Undefined THEN EmptyObject ELSE employee.identity[1]
      [] block = "address" ->
            IF employee.address = Undefined THEN EmptyObject ELSE employee.address[1]
      [] block = "personal" -> employee.personal
      [] block = "contract" -> employee.contract
      [] block = "salary" -> employee.salary
      [] block = "period" -> employee.period

\* the table of field names of each block
TableOf(block) ==
    CASE block = "identity" -> identityMapping
      [] block = "address" -> addressMapping
      [] block = "personal" -> personalMapping
      [] block = "contract" -> contractMapping
      [] block = "salary" -> salaryMapping
      [] block = "period" -> periodMapping

\* the code prefix of each block
PrefixOf(block) == CHOOSE code \in DOMAIN OwnFlag : OwnFlag[code] = block

\* the header-delimited region the k-th line of a file stands in: the block
\* of the last header token before it, "none" when that header is of no
\* employee block or there is none
RegionAt(raw, k) ==
    LET headers == {h \in 1..(k - 1) : IsDsnLine(raw[h]) /\ ValueOf(raw[h]) = <<>>}
    IN  IF headers = {} THEN "none"
        ELSE LET last == CHOOSE h \in headers : \A g \in headers : g <= h
             IN  IF raw[last].code \in DOMAIN OwnFlag
                 THEN OwnFlag[raw[last].code] ELSE "none"

\* the data lines of a file that can have written a given key and value in
\* a given block: they stand in the region of the block
WritersOf(raw, block, key, value) ==
    {k \in 1..Len(raw) :
        /\ IsDsnLine(raw[k])
        /\ ValueOf(raw[k]) # <<>>
        /\ RegionAt(raw, k) = block
        /\ FieldName(TableOf(block), raw[k].code) = key
        /\ ValueOf(raw[k]) = value}

\* the entries of the blocks of the employees of the company
StoredEntries ==
    {<<r, block, key>> \in EmployeeRefs(company) \X BlockNames \X
                           {FieldName(TableOf(b), line.code) :
                               b \in BlockNames, line \in {l \in BlockLines \cup RawLines : IsDsnLine(l)}} :
        key \in DOMAIN BlockOf(EmployeeAt(company, r), block)}

\* C20, as stated: every key/value stored in a block of an employee comes
\* from a data line that carries the prefix of the block and was read in
\* the region of the block.
C20_NoCrossBlockLeakage ==
    \A entry \in StoredEntries :
        LET block == entry[2]
            value == BlockOf(EmployeeAt(company, entry[1]), block)[entry[3]]
        IN  \E k \in WritersOf(content, block, entry[3], value) :
               startsWith(content[k].code, PrefixOf(block))

\* C20, amended: every key/value stored in a block of an employee comes
\* from a data line that was read in the header-delimited region of the
\* block, whatever the code of the line; a line with the code of another
\* block is stored in the active block, under its code as the key.
C20_WrittenInOwnRegion ==
    \A entry \in StoredEntries :
        LET block == entry[2]
            value == BlockOf(EmployeeAt(company, entry[1]), block)[entry[3]]
        IN  WritersOf(content, block, entry[3], value) # {}

\* S21.G00.40.003 read while the personal block is active
C20_Witness ==
    /\ content = <<Marker, ContractTypeLine>>
    /\ company.establishments[1].employees[1].personal
          = (<<"S21", "G00", "40", "003">> :> A)
    /\ company.establishments[1].employees[1].contract = EmptyObject

----------------------------------------------------------------------------
(* C21 *)

\* the table of each field mapper
TableOfMapper ==
    [handleCompanyData |-> companyFields,
     handleEstablishmentData |-> establishmentFields,
     handleIdentityData |-> identityMapping,
     handleAddressData |-> addressMapping,
     handlePersonalData |-> personalMapping,
     handleContractData |-> contractMapping,
     handleSalaryData |-> salaryMapping,
     handlePeriodData |-> periodMapping]

\* the record of fields inside the object a mapper is given
FieldsOf(mapper, object) ==
    CASE mapper = "handleCompanyData" -> object.companyInfo
      [] mapper = "handleEstablishmentData" -> object.establishmentInfo
      [] OTHER -> object

\* what an object holds beside its record of fields
RestOf(mapper, object) ==
    CASE mapper = "handleCompanyData" -> object.establishments
      [] mapper = "handleEstablishmentData" -> object.employees
      [] OTHER -> <<>>

\* C21: a call of a field mapper with (record, code, value) leaves value,
\* unchanged, under the field name of the mapper's table when the code is in
\* the table and under the code itself otherwise; it sets that one key and
\* leaves the other keys of the record, what else the object holds, and the
\* objects of the other mappers as they were.
C21_MapperStoresOneField ==
    [][(returned = <<>> /\ returned' # <<>>) =>
        LET call == args[1]
            table == TableOfMapper[call.mapper]
            key == IF call.code \in DOMAIN table THEN table[call.code] ELSE call.code
            before == FieldsOf(call.mapper, call.objects[call.mapper])
            after == FieldsOf(call.mapper, returned'[1][call.mapper])
        IN  /\ DOMAIN after = DOMAIN before \cup {key}
            /\ after[key] = call.value
            /\ \A k \in DOMAIN before : k # key => after[k] = before[k]
            /\ RestOf(call.mapper, returned'[1][call.mapper])
                  = RestOf(call.mapper, call.objects[call.mapper])
            /\ \A other \in FieldMappers \ {call.mapper} :
                  returned'[1][other] = call.objects[other]
    ]_vars

\* a code of no table stored beside a known field, the second call then
\* giving the known field another value
C21_Witness ==
    /\ args # <<>>
    /\ args[1].mapper = "handlePersonalData"
    /\ args[1].objects.handlePersonalData =
          (<<"nir">> :> A)
    /\ args[1].code = <<"S21", "G00", "40", "003">>
    /\ returned = Some([args[1].objects EXCEPT !.handlePersonalData =
                          (<<"nir">> :> A) @@ (<<"S21", "G00", "40", "003">> :> B)])
    /\ args[1].value = B

----------------------------------------------------------------------------
(* C22 *)

\* a string of exactly 8 digits
IsEightDigits(text) == Len(text) = 8 /\ IsDigits(text)

\* C22: parseDsnDate returns null for every value that is not a string of
\* exactly 8 digits, and a date only for a value of that shape.
C22_NullUnlessEightDigits ==
    returned # <<>> =>
        (returned[1] # <<>> => IsEightDigits(args[1].dsnDate))

----------------------------------------------------------------------------
(* C23 *)

\* the period start, period end and salary period start values of the
\* employees that are dates written YYYYMMDD
CollectedTexts(emps) ==
    {value \in UNION {{Get(emps[k].period, <<"debutPeriode">>),
                        Get(emps[k].period, <<"finPeriode">>),
                        Get(emps[k].salary, <<"debutPeriode">>)} : k \in 1..Len(emps)} :
        IsDateText(value)}

YearOfText(value) == NumberOf(SubSeq(value, 1, 4))
DayOfText(value) ==
    DayIndex(YearOfText(value), NumberOf(SubSeq(value, 5, 6)),
             NumberOf(SubSeq(value, 7, 8)))
DateOfText(value, zone) ==
    LocalDate(YearOfText(value), NumberOf(SubSeq(value, 5, 6)),
              NumberOf(SubSeq(value, 7, 8)), zone)

\* C23: when at least one date is collected, the period is the current
\* calendar year if no collected date has its year in
\* [currentYear - 5, currentYear + 1]; otherwise startDate is the earliest
\* and endDate the latest of the collected dates of that window, so that
\* startDate <= endDate.
C23_PeriodIsRangeOfKeptDates ==
    (MapperPeriodResolved /\ CollectedTexts(employees) # {}) =>
        LET kept == {value \in CollectedTexts(employees) :
                        /\ YearOfText(value) >= currentYear - 5
                        /\ YearOfText(value) <= currentYear + 1}
            period == reportingPeriod[1]
        IN  IF kept = {}
            THEN period = [startDate |-> UTCDate(currentYear, 1, 1),
                           endDate |-> UTCDate(currentYear, 12, 31)]
            ELSE /\ \E first \in kept :
                       /\ \A value \in kept : DayOfText(first) <= DayOfText(value)
                       /\ period.startDate = DateOfText(first, tz)
                 /\ \E last \in kept :
                       /\ \A value \in kept : DayOfText(value) <= DayOfText(last)
                       /\ period.endDate = DateOfText(last, tz)
                 /\ period.startDate.time <= period.endDate.time

----------------------------------------------------------------------------
(* C24 *)

\* the employee was present at the start of the period: the contract start
\* is a date, on or before the start of the period, and the contract end is
\* absent or a date after the start of the period
PresentAtStart(emp, period, zone) ==
    LET dateDebutContrat == Get(emp.contract, <<"dateDebutContrat">>)
        dateFinContrat == Get(emp.contract, <<"dateFinContrat">>)
    IN  /\ IsDateText(dateDebutContrat)
        /\ DateOfText(dateDebutContrat, zone).time <= period.startDate.time
        /\ \/ dateFinContrat = <<>>
           \/ /\ IsDateText(dateFinContrat)
              /\ DateOfText(dateFinContrat, zone).time > period.startDate.time

\* C24: calculateEmployeesAtStart counts exactly the employees whose
\* contract start is a valid date on or before the start of the period and
\* whose contract end is absent or after the start of the period; an
\* employee whose contract start is missing or is not a valid date is not
\* counted.
C24_AtStartCountsValidContracts ==
    MapperPeriodResolved =>
        calculateEmployeesAtStart(employees, reportingPeriod[1], tz)
            = Cardinality({k \in 1..Len(employees) :
                              PresentAtStart(employees[k], reportingPeriod[1], tz)})

----------------------------------------------------------------------------
(* C25 *)

\* Math.round(0.8 * n)
EightyPercent(n) == (8 * n + 5) \div 10

\* employees with a contract start date, a nir and a family name
CompleteEmployees(emps) ==
    {k \in 1..Len(emps) :
        /\ Get(emps[k].contract, <<"dateDebutContrat">>) # <<>>
        /\ Get(emps[k].personal, <<"nir">>) # <<>>
        /\ Get(emps[k].personal, <<"nomFamille">>) # <<>>}

\* C25: S1-6_02 is the number of employees with a non-empty contract start
\* date, nir and family name; S1-6_03 is 80 % of S1-6_02, rounded to the
\* nearest integer; the figures of the S1-6_17 text are S1-6_02, S1-6_03
\* and S1-6_11.
C25_AverageIsEightyPercentOfHeadcount ==
    MapperDone =>
        /\ answers[1].S1_6_02 = Cardinality(CompleteEmployees(employees))
        /\ answers[1].S1_6_03 = EightyPercent(answers[1].S1_6_02)
        /\ answers[1].S1_6_17.activeAtEnd = answers[1].S1_6_02
        /\ answers[1].S1_6_17.averageDuring = answers[1].S1_6_03
        /\ answers[1].S1_6_17.leftDuring = answers[1].S1_6_11

----------------------------------------------------------------------------
(* C26 *)

\* the number of employees for each key, among the employees that satisfy
\* Valid: all of them ("end"), or the first 80 % of them in the order of
\* the list ("average")
Grouped(emps, Valid(_), Key(_), calculation) ==
    LET valid == {k \in 1..Len(emps) : Valid(emps[k])}
        limit == IF calculation = "end" THEN Cardinality(valid)
                 ELSE EightyPercent(Cardinality(valid))
        counted == {k \in valid : Cardinality({j \in valid : j <= k}) <= limit}
    IN  [key \in {Key(emps[k]) : k \in counted} |->
            Cardinality({k \in counted : Key(emps[k]) = key})]

HasNir(emp) == Get(emp.personal, <<"nir">>) # <<>>
CountryOf(emp) ==
    IF Get(emp.personal, <<"nationalite">>) # <<>>
    THEN Get(emp.personal, <<"nationalite">>)
    ELSE Get(emp.personal, <<"paysDomicile">>)
CountryOrUnknown(emp) == IF CountryOf(emp) # <<>> THEN CountryOf(emp) ELSE Unknown
GenderOf(emp) ==
    IF Get(emp.personal, <<"sexe">>) # <<>> THEN Get(emp.personal, <<"sexe">>)
    ELSE IF Get(emp.contract, <<"sexe">>) # <<>> THEN Get(emp.contract, <<"sexe">>)
    ELSE Unknown
ContractGenderOf(emp) == Get(emp.contract, <<"typeContrat">>) \o Dash \o GenderOf(emp)
CityOf(emp) == Get(emp.personal, <<"ville">>)
JobOf(emp) == Get(emp.contract, <<"emploi">>)

HasCountry(emp) == CountryOf(emp) # <<>> /\ HasNir(emp)
HasFamilyName(emp) == HasNir(emp) /\ Get(emp.personal, <<"nomFamille">>) # <<>>
HasContractType(emp) == Get(emp.contract, <<"typeContrat">>) # <<>> /\ HasNir(emp)
HasCity(emp) == CityOf(emp) # <<>> /\ HasNir(emp)
HasJob(emp) == JobOf(emp) # <<>> /\ HasNir(emp)

\* the three groupings that filter on the field they group by
OtherGroupingsAsStated ==
    /\ answers[1].K_718 = Grouped(employees, HasContractType, ContractGenderOf, "end")
    /\ answers[1].K_719 = Grouped(employees, HasContractType, ContractGenderOf, "average")
    /\ answers[1].S1_6_09 = Grouped(employees, HasCity, CityOf, "end")
    /\ answers[1].S1_6_10 = Grouped(employees, HasCity, CityOf, "average")
    /\ answers[1].S1_6_19 = Grouped(employees, HasJob, JobOf, "end")
    /\ answers[1].S1_6_20 = Grouped(employees, HasJob, JobOf, "average")

\* C26, as stated: each of the four groupings counts the employees whose
\* grouped field is non-empty and who have a nir, all of them ("end") or the
\* first 80 % of them ("average"); there is no "Unknown" country.
C26_GroupingsFilterOnTheirField ==
    MapperDone =>
        /\ answers[1].S1_6_05 = Grouped(employees, HasCountry, CountryOf, "end")
        /\ answers[1].S1_6_06 = Grouped(employees, HasCountry, CountryOf, "average")
        /\ OtherGroupingsAsStated

\* C26, amended: the groupings by contract type and gender, by city and by
\* job count the employees whose grouped field is non-empty and who have a
\* nir; the grouping by country counts the employees who have a nir and a
\* family name, under the nationality, else the country of residence, else
\* "Unknown"; "end" counts all of them and "average" the first 80 % of them
\* in the order of the list.
C26_CountryFiltersOnFamilyName ==
    MapperDone =>
        /\ answers[1].S1_6_05 = Grouped(employees, HasFamilyName, CountryOrUnknown, "end")
        /\ answers[1].S1_6_06 =
              Grouped(employees, HasFamilyName, CountryOrUnknown, "average")
        /\ OtherGroupingsAsStated

\* three employees, one without a country: two countries and "Unknown" at
\* the end of the period, the first two of the three on average
C26_Witness ==
    /\ MapperDone
    /\ Len(employees) = 3
    /\ answers[1].S1_6_05 = (A :> 1) @@ (Unknown :> 1) @@ (B :> 1)
    /\ answers[1].S1_6_06 = (A :> 1) @@ (Unknown :> 1)
    /\ answers[1].K_718 # <<>>

----------------------------------------------------------------------------
(* C27 *)

\* the current employee, when there is one, is the last employee of the
\* current establishment
CurrentEmployeeIsLast ==
    currentEmployee # NullRef =>
        /\ currentEmployee.est = currentEstablishment
        /\ currentEmployee.emp
              = Len(company.establishments[currentEstablishment].employees)

\* a step of the walk leaves the employees of the establishments before the
\* current one as they were
EarlierEstablishmentsKept ==
    [][content' # content =>
          \A e \in 1..Len(company.establishments) :
              e < currentEstablishment' =>
                  company'.establishments[e].employees
                      = company.establishments[e].employees]_vars

\* C27: at every step of the walk a non-null current employee is the last
\* employee of the current establishment, and no step modifies an employee
\* of an establishment before the current one.
C27_CurrentEmployeeInCurrentEstablishment ==
    [](pc = "walk" => CurrentEmployeeIsLast) /\ EarlierEstablishmentsKept

----------------------------------------------------------------------------
(* C28 *)

\* C28: before the first employee-start marker, the backfill pass is inside
\* the identity (address) block at a token exactly when the flag
\* inIdentityBlock (inAddressBlock) of the main walk is set at that token.
C28_PassesAgreeOnContext ==
    (pc = "walk" /\ ~HasMarker(content)) =>
        LET flags == backfillFlags(FilterLines(content), 1, FALSE, FALSE)
        IN  /\ inIdentityBlock = flags.inIdentityBlock
            /\ inAddressBlock = flags.inAddressBlock

----------------------------------------------------------------------------
(* C29 *)

\* the data lines of a file that stand before its first employee-start marker
LeadingDataLines(raw) ==
    {k \in 1..Len(raw) :
        /\ IsDsnLine(raw[k])
        /\ ValueOf(raw[k]) # <<>>
        /\ \A m \in 1..k : ~IsMarkerToken(raw[m])}

\* the identity and address blocks of the employees, before and after the
\* test of lines 246-253
ContainerEntries(comp) ==
    {<<r, block, key>> \in EmployeeRefs(comp) \X {"identity", "address"} \X
                           {FieldName(TableOf(b), line.code) :
                               b \in {"identity", "address"},
                               line \in {l \in BackfillLines : IsDsnLine(l)}} :
        key \in DOMAIN BlockOf(EmployeeAt(comp, r), block)}

\* C29: the backfill pass keeps the value of every identity and address
\* field the main walk has written, and every field it adds holds the value
\* of a data line that stands before the first employee-start marker.
C29_BackfillOnlyAdds ==
    [][(pc = "walk" /\ pc' = "done") =>
          /\ \A entry \in ContainerEntries(company) :
                /\ entry \in ContainerEntries(company')
                /\ BlockOf(EmployeeAt(company', entry[1]), entry[2])[entry[3]]
                      = BlockOf(EmployeeAt(company, entry[1]), entry[2])[entry[3]]
          /\ \A entry \in ContainerEntries(company') \ ContainerEntries(company) :
                \E k \in LeadingDataLines(content) :
                    /\ FieldName(TableOf(entry[2]), content[k].code) = entry[3]
                    /\ ValueOf(content[k])
                          = BlockOf(EmployeeAt(company', entry[1]), entry[2])[entry[3]]
    ]_vars

----------------------------------------------------------------------------
(* C30 *)

\* C30: the turnover percentage S1-6_12 never exceeds 100 (10000 hundredths
\* of a percent): when the count at the start of the period is not zero,
\* the count of the employees who left is at most that count.
C30_TurnoverAtMostHundred ==
    MapperDone =>
        /\ answers[1].S1_6_12 <= 10000
        /\ calculateEmployeesAtStart(employees, reportingPeriod[1], tz) # 0 =>
              answers[1].S1_6_11
                  <= calculateEmployeesAtStart(employees, reportingPeriod[1], tz)

============================================================================
